---------------------------- MODULE Spec2Model ----------------------------
(***************************************************************************)
(* Parcel / layer intersection engine and coverage normalizer of           *)
(* cua_latresne.                                                           *)
(*                                                                         *)
(*   SpecNorm : normalize_pairs (CUA_GENERATION/cua_builder_utils.py)      *)
(*              applied once and then again to its own result.             *)
(*   Spec     : the batch runner run() and _intersect_one_parcel()         *)
(*              (INTERSECTIONS/intersections_parcelle.py and the flat      *)
(*              intersections_parcelle.py used by cua_service.py), one     *)
(*              action per store query / external call.                    *)
(*                                                                         *)
(* Numbers.  Python floats are modelled by exact rationals.  A list of     *)
(* percents is kept with one common denominator: a distribution is         *)
(* [den |-> D, pairs |-> << [v |-> value, p |-> N], ... >>] and stands for  *)
(* the percents N / D.  Inputs of normalize_pairs are counted in 1/Unit of  *)
(* a percent (Unit = 10000, so that the tolerance 0.0001 is one unit).     *)
(***************************************************************************)
EXTENDS Integers, Sequences, FiniteSets, TLC

\* ------------------------------------------------------------------------
\* State of SpecNorm (normalize_pairs)
\* ------------------------------------------------------------------------
VARIABLES
    nphase,     \* "input" | "once" | "twice"
    ninput,     \* the list given to normalize_pairs
    nout1,      \* normalize_pairs(ninput)
    nout2       \* normalize_pairs(nout1)

\* ------------------------------------------------------------------------
\* State of SpecMap (load_layer_map)
\* ------------------------------------------------------------------------
VARIABLES
    mphase,     \* "off" | "loaded"
    mraw,       \* the parsed mapping.json
    mlayers     \* load_layer_map(mraw)

\* ------------------------------------------------------------------------
\* State of SpecJudge (judge_meta)
\* ------------------------------------------------------------------------
VARIABLES
    jphase,     \* "off" | "input" | "judged"
    jmeta,      \* the CERFA metadata given to judge_meta
    jres,       \* what call_gpt5_text returns
    jverdict    \* what judge_meta returns

\* ------------------------------------------------------------------------
\* State of SpecArea (the loops over the AREA and coverage rows)
\* ------------------------------------------------------------------------
VARIABLES
    aphase,     \* "off" | "rows" | "done"
    arows,      \* rows of the AREA query
    acovrows,   \* rows of a coverage query
    asurfaces,  \* surfaces built from arows
    acov_list   \* cov_list built from acovrows

\* ------------------------------------------------------------------------
\* State of SpecCerfa (run of cerfa_gemini_pipeline)
\* ------------------------------------------------------------------------
VARIABLES
    cpc,                \* "off" | "start" | "loop" | "call" | "parse" | "judge" | "returned" | "raised"
    judge,              \* --judge / --no-judge
    max_judge_retries,  \* --max-judge-retries
    judge_attempt,      \* extraction attempts started
    attempt,            \* position in range(1, max_retries + 1)
    text,               \* response.text of the last model call
    final,              \* the result being built
    judge_results,      \* verdicts recorded so far
    out_json,           \* what was written to out_json
    calls,              \* model calls made in the current extraction attempt
    last_error          \* error of the last model call (NoError: it answered)

\* ------------------------------------------------------------------------
\* State of SpecOrch (run_full_pipeline / run_parcel_pipeline of cua_orchestrator)
\* ------------------------------------------------------------------------
VARIABLES
    opc,            \* "off" | "mkdir" | "cerfa" | "inters" | "docx" | "map" | "upload" | "db" | "notify" | "returned" | "escaped"
    pipeline,       \* "full" (run_full_pipeline) | "parcel" (run_parcel_pipeline)
    notify_emails,  \* recipients (empty: None)
    map_built,      \* map.html was written
    report_url,     \* _upload_or_none(docx_path)
    map_url,        \* _upload_or_none(map_path)
    job_id,         \* id of the inserted row
    result,         \* what the pipeline returns
    cua_jobs,       \* rows of public.cua_jobs
    sent,           \* mails sent
    failed_step,    \* the step that raised ("": none)
    soft_failures   \* uploads and insert that failed

\* ------------------------------------------------------------------------
\* State of SpecCache (_LAYER_MAPPING and mapping_for of cua_builder_utils)
\* ------------------------------------------------------------------------
VARIABLES
    cphase,     \* "off" | "loaded" | "resolved"
    craw,       \* the parsed mapping_layers.json
    ccache,     \* _LAYER_MAPPING after the module-level load
    clayer,     \* the layer given to mapping_for
    cfound      \* what mapping_for returns

\* ------------------------------------------------------------------------
\* State of SpecJobs (requests to /cua and /cua/direct and their background jobs)
\* ------------------------------------------------------------------------
VARIABLES
    jobs,            \* the jobs accepted so far: kind, temp_dir, pdf_path, position
    files,           \* every file written so far: who wrote it, what it is, where
    uuids,           \* uuid.uuid4() values handed out so far
    mkstemps         \* tempfile.mkstemp names handed out so far

\* ------------------------------------------------------------------------
\* State of Spec (the batch run)
\* ------------------------------------------------------------------------
VARIABLES
    variant,            \* "INTERSECTIONS" (package module) | "flat" (top-level module)
    carve_enclaves,     \* args.carve_enclaves
    commune,            \* args.commune
    departement,        \* args.departement
    pc,                 \* next step of run / _intersect_one_parcel
    error,              \* what was raised out of the run ("" while none)
    insee,              \* resolved INSEE code
    layers,             \* layers_all
    refs,               \* parsed parcel references
    ref_idx,            \* position in refs of the parcel being processed
    all_reports,        \* reports collected so far
    out,                \* the BatchReport written at the end (EmptyDict before)
    feat,               \* parcel_feature
    gj,                 \* geometry sent to the store
    parcel_extra,       \* enclaves / holes_in_host block
    lyr_idx,            \* position in layers of the layer being processed
    results_report,     \* results of the current parcel
    hit_count,          \* layers with hits of the current parcel
    keep_effective,     \* whitelisted columns present in the table
    n,                  \* COUNT of the current layer
    vals_map,           \* values of the current layer
    ci,                 \* position in keep_effective
    parcel_area_m2,
    surfaces,
    id_sql,             \* "id" column or "ROW_NUMBER"
    coverage_results,
    cj,                 \* position in coverage_by
    faults,             \* store queries that failed so far
    failed,             \* (reference, layer) positions whose store query failed
    wfs_called,         \* a parcel geometry was requested
    store_queried,      \* a store query was issued
    qlog                \* queries issued for the current layer


\* ------------------------------------------------------------------------
\* Bounds
\* ------------------------------------------------------------------------
\* longest input list of normalize_pairs
MaxLen == 3

\* ------------------------------------------------------------------------
\* Program constants
\* ------------------------------------------------------------------------
\* 100.0001 = 100 + 1/Unit : the tolerance of the rescale test
Unit == 10000
\* the cap of one group and the target of the rescale, in percent
Cap == 100

\* ------------------------------------------------------------------------
\* Values of (value, percent) pairs: None or a str.
\* ------------------------------------------------------------------------
None == [kind |-> "none", text |-> ""]
S(t) == [kind |-> "str", text |-> t]

\* str(v) without the line "if v is None: v = ''": None becomes "None"
KeyOfStrNone(v) == IF v = None THEN "None" ELSE v.text

\* str(v) of Python, after "if v is None: v = ''"
KeyOf(v) == IF v = None THEN "" ELSE v.text

\* values and percents (in 1/Unit percent) the input lists are drawn from
InValues == {None, S(""), S("Bleu"), S("Rouge")}
InPcts == {1, 10 * Unit, 45 * Unit, 70 * Unit, 100 * Unit}
InPairs == [v : InValues, p : InPcts]

RECURSIVE SeqsUpTo(_, _)
SeqsUpTo(len, set) ==
    IF len = 0 THEN {<< >>}
    ELSE LET shorter == SeqsUpTo(len - 1, set)
         IN  shorter \cup {Append(s, x) : s \in {t \in shorter : Len(t) = len - 1}, x \in set}

\* ------------------------------------------------------------------------
\* normalize_pairs
\* ------------------------------------------------------------------------
RECURSIVE SumP(_)
SumP(seq) == IF seq = << >> THEN 0 ELSE Head(seq).p + SumP(Tail(seq))

Min(a, b) == IF a <= b THEN a ELSE b

\* agg[str(v)] += float(pct or 0.0) on an insertion-ordered dict
AggAdd(agg, key, pct) ==
    IF \E i \in 1..Len(agg) : agg[i].v = key
    THEN [i \in 1..Len(agg) |->
            IF agg[i].v = key THEN [agg[i] EXCEPT !.p = @ + pct] ELSE agg[i]]
    ELSE Append(agg, [v |-> key, p |-> pct])

RECURSIVE AggOf(_, _)
AggOf(pairs, agg) ==
    IF pairs = << >> THEN agg
    ELSE AggOf(Tail(pairs), AggAdd(agg, KeyOf(Head(pairs).v), Head(pairs).p))

\* norm = [(v, min(p, 100.0)) for v, p in agg.items()]
CapGroups(agg, den) ==
    [i \in 1..Len(agg) |-> [v |-> agg[i].v, p |-> Min(agg[i].p, Cap * den)]]

\* list.sort(key=percent, reverse=True): stable, equal percents keep their order
RECURSIVE InsertDesc(_, _)
InsertDesc(sorted, x) ==
    IF sorted = << >> THEN << x >>
    ELSE IF Head(sorted).p >= x.p
         THEN << Head(sorted) >> \o InsertDesc(Tail(sorted), x)
         ELSE << x >> \o sorted

RECURSIVE SortFrom(_, _)
SortFrom(seq, sorted) ==
    IF seq = << >> THEN sorted
    ELSE SortFrom(Tail(seq), InsertDesc(sorted, Head(seq)))

\* a sort that sorts ascending and then reverses: equal percents swap places
RECURSIVE InsertAscRev(_, _)
InsertAscRev(sorted, x) ==
    IF sorted = << >> THEN << x >>
    ELSE IF Head(sorted).p > x.p
         THEN << Head(sorted) >> \o InsertAscRev(Tail(sorted), x)
         ELSE << x >> \o sorted

RECURSIVE SortFromRev(_, _)
SortFromRev(seq, sorted) ==
    IF seq = << >> THEN sorted
    ELSE SortFromRev(Tail(seq), InsertAscRev(sorted, Head(seq)))

SortDescReversedTies(seq) == SortFromRev(seq, << >>)

SortDesc(seq) == SortFrom(seq, << >>)

\* the test "total > 100.0" without the tolerance
OverHundred(num, den) == num > Cap * den

\* total > 100.0001 for total = num / den, i.e. num * Unit > (Cap * Unit + 1) * den,
\* written (num - Cap * den) * Unit > den and, num - Cap * den being an integer,
\* num - Cap * den > den \div Unit  (keeps the products inside 32 bits)
OverTolerance(num, den) == num - Cap * den > den \div Unit

\* the rescale  p * 100.0 / total : the percents n * 100 / total
Rescale(norm, total) ==
    [den |-> total,
     pairs |-> [i \in 1..Len(norm) |-> [v |-> S(norm[i].v), p |-> norm[i].p * Cap]]]

Unscaled(norm, den) ==
    [den |-> den,
     pairs |-> [i \in 1..Len(norm) |-> [v |-> S(norm[i].v), p |-> norm[i].p]]]

\* cap applied after the total is computed (the total sums uncapped groups)
NormalizeCapLate(d) ==
    LET agg == SortDesc(AggOf(d.pairs, << >>))
        total == SumP(agg)
        norm == CapGroups(agg, d.den)
    IN  IF OverTolerance(total, d.den) THEN Rescale(norm, total)
        ELSE Unscaled(norm, d.den)

\* the groups capped and sorted, the total never limited
NormalizeNoRescale(d) ==
    Unscaled(SortDesc(CapGroups(AggOf(d.pairs, << >>), d.den)), d.den)

normalize_pairs(d) ==
    LET agg == AggOf(d.pairs, << >>)
        norm == SortDesc(CapGroups(agg, d.den))
        total == SumP(norm)
    IN  IF OverTolerance(total, d.den) THEN Rescale(norm, total)
        ELSE Unscaled(norm, d.den)

\* ------------------------------------------------------------------------
\* Properties of normalize_pairs
\* ------------------------------------------------------------------------
RECURSIVE Gcd(_, _)
Gcd(a, b) == IF b = 0 THEN a ELSE Gcd(b, a % b)

\* the percent num / den as a fraction in lowest terms
Lowest(num, den) == << num \div Gcd(num, den), den \div Gcd(num, den) >>

DistinctValues(d) ==
    \A i, j \in 1..Len(d.pairs) : d.pairs[i].v = d.pairs[j].v => i = j

PercentsInRange(d) ==
    \A i \in 1..Len(d.pairs) : d.pairs[i].p >= 0 /\ d.pairs[i].p <= Cap * d.den

\* sum of percents <= 100 + 1/Unit, i.e. (sum - 100 * den) * Unit <= den
SumWithinTolerance(d) == SumP(d.pairs) - Cap * d.den <= d.den \div Unit

\* sum of the input percents whose stringified value is k
RECURSIVE SumOfKey(_, _)
SumOfKey(pairs, k) ==
    IF pairs = << >> THEN 0
    ELSE (IF KeyOf(Head(pairs).v) = k THEN Head(pairs).p ELSE 0) + SumOfKey(Tail(pairs), k)

KeysOf(pairs) == {KeyOf(pairs[i].v) : i \in 1..Len(pairs)}

RECURSIVE CappedTotal(_, _, _)
CappedTotal(pairs, keys, den) ==
    IF keys = {} THEN 0
    ELSE LET k == CHOOSE x \in keys : TRUE
         IN  Min(SumOfKey(pairs, k), Cap * den) + CappedTotal(pairs, keys \ {k}, den)

HasDuplicate(pairs) ==
    \E i, j \in 1..Len(pairs) : i < j /\ KeyOf(pairs[i].v) = KeyOf(pairs[j].v)

\* C1: for every input list with percents >= 0 the result of normalize_pairs has
\* pairwise distinct values, every percent within [0, 100], and a sum of percents
\* of at most 100 + 0.0001.
C1_NormalizationInvariant ==
    /\ nphase \in {"once", "twice"} =>
          DistinctValues(nout1) /\ PercentsInRange(nout1) /\ SumWithinTolerance(nout1)
    /\ nphase = "twice" =>
          DistinctValues(nout2) /\ PercentsInRange(nout2) /\ SumWithinTolerance(nout2)

\* C1 witness: an input with a duplicated value whose capped groups sum above the
\* tolerance has been normalized (two groups left, rescaled).
C1_Witness ==
    /\ nphase = "once"
    /\ HasDuplicate(ninput.pairs)
    /\ SumP(ninput.pairs) > (Cap + 1) * Unit
    /\ Len(nout1.pairs) = 2
    /\ nout1.den # Unit

DedupExample ==
    << [v |-> S("Bleu"), p |-> 70 * Unit],
       [v |-> S("Bleu"), p |-> 45 * Unit],
       [v |-> S("Rouge"), p |-> 10 * Unit] >>

\* C9: [("Bleu", 70), ("Bleu", 45), ("Rouge", 10)] gives Bleu = 100*100/110 = 1000/11
\* then Rouge = 10*100/110 = 100/11, summing to 100; in general each group is capped
\* after its duplicates are summed and before the total is taken: the total that
\* decides and scales the rescale is the sum of the capped group sums.
C9_DedupBeforeCap ==
    nphase = "once" =>
        LET capped == CappedTotal(ninput.pairs, KeysOf(ninput.pairs), Unit)
            over == capped > Cap * Unit + 1
        IN  /\ nout1.den = IF over THEN capped ELSE Unit
            /\ \A i \in 1..Len(nout1.pairs) :
                  nout1.pairs[i].p =
                      Min(SumOfKey(ninput.pairs, nout1.pairs[i].v.text), Cap * Unit)
                        * (IF over THEN Cap ELSE 1)
            /\ ninput.pairs = DedupExample =>
                  /\ Len(nout1.pairs) = 2
                  /\ nout1.pairs[1].v = S("Bleu")
                  /\ Lowest(nout1.pairs[1].p, nout1.den) = << 1000, 11 >>
                  /\ nout1.pairs[2].v = S("Rouge")
                  /\ Lowest(nout1.pairs[2].p, nout1.den) = << 100, 11 >>
                  /\ SumP(nout1.pairs) = Cap * nout1.den

\* C9 witness: the example list has been normalized.
C9_Witness == nphase = "once" /\ ninput.pairs = DedupExample

\* the capped sum of the group of a stringified value, in 1/den percent
CappedGroup(pairs, k, den) == Min(SumOfKey(pairs, k), Cap * den)

\* C22: when the sum of the capped group percents is above 100.0001, every
\* percent of the result is the capped percent of its group times 100 / total,
\* so that the result sums to 100 and keeps the ratios between the groups; when
\* the sum is at most 100.0001 (100.0001 itself included) nothing is rescaled
\* and every percent of the result is min(sum of the input percents of its
\* value, 100).
C22_RescaleRule ==
    nphase \in {"once", "twice"} =>
        LET total == CappedTotal(ninput.pairs, KeysOf(ninput.pairs), ninput.den)
            Group(i) == CappedGroup(ninput.pairs, nout1.pairs[i].v.text, ninput.den)
            Pct(i) == Lowest(nout1.pairs[i].p, nout1.den)
        IN  IF total - Cap * ninput.den > ninput.den \div Unit
            THEN /\ \A i \in 1..Len(nout1.pairs) : Pct(i) = Lowest(Group(i) * Cap, total)
                 /\ SumP(nout1.pairs) = Cap * nout1.den
                 /\ \A i, j \in 1..Len(nout1.pairs) :
                       Lowest(nout1.pairs[i].p, nout1.pairs[j].p) = Lowest(Group(i), Group(j))
            ELSE \A i \in 1..Len(nout1.pairs) : Pct(i) = Lowest(Group(i), ninput.den)

\* C22 witness: a list of three groups was rescaled, one of the groups capped
\* at 100 before, the groups in the ratio 100 : 45 : 10.
C22_Witness ==
    /\ nphase = "once"
    /\ Len(nout1.pairs) = 3
    /\ SumOfKey(ninput.pairs, nout1.pairs[1].v.text) = Cap * Unit
    /\ CappedTotal(ninput.pairs, KeysOf(ninput.pairs), Unit) = 155 * Unit
    /\ Lowest(nout1.pairs[2].p, nout1.den) = << 900, 31 >>
    /\ nout1.den # ninput.den

\* position of the first input pair whose value, null read as the empty string,
\* is the text k
FirstOccurrence(pairs, k) ==
    CHOOSE i \in 1..Len(pairs) :
        /\ pairs[i].v.text = k
        /\ \A j \in 1..(i - 1) : pairs[j].v.text # k

\* C23: the pairs whose value is null and the pairs whose value is the empty
\* string make one group keyed by the empty string; the result has exactly one
\* pair per distinct stringified input value; it is sorted by percent, highest
\* first, and two groups of equal percent come in the order of their first
\* occurrence in the input.
C23_GroupingAndOrder ==
    nphase \in {"once", "twice"} =>
        LET texts == {ninput.pairs[i].v.text : i \in 1..Len(ninput.pairs)}
            First(i) == FirstOccurrence(ninput.pairs, nout1.pairs[i].v.text)
        IN  /\ {nout1.pairs[i].v : i \in 1..Len(nout1.pairs)} = {S(t) : t \in texts}
            /\ Len(nout1.pairs) = Cardinality(texts)
            /\ \A i, j \in 1..Len(nout1.pairs) :
                  i < j =>
                      /\ nout1.pairs[i].p >= nout1.pairs[j].p
                      /\ nout1.pairs[i].p = nout1.pairs[j].p => First(i) < First(j)

\* C23 witness: a null value and an empty string were grouped under the empty
\* string, and that group ties (both capped at 100) with a group that first
\* occurs after it in the input: it comes first in the result.
C23_Witness ==
    /\ nphase = "once"
    /\ ninput.pairs = << [v |-> None, p |-> 100 * Unit], [v |-> S("Bleu"), p |-> 100 * Unit],
                         [v |-> S(""), p |-> 1] >>
    /\ Len(nout1.pairs) = 2
    /\ nout1.pairs[1].v = S("")
    /\ nout1.pairs[2].v = S("Bleu")
    /\ nout1.pairs[1].p = nout1.pairs[2].p

\* C10: normalize_pairs is idempotent: normalizing its own result gives the same
\* values, in the same order, with the same percents.
C10_Idempotent == nphase = "twice" => nout2 = nout1

\* C10 witness: a list that was rescaled by the first pass, with two groups of equal
\* percent, has been normalized a second time.
C10_Witness ==
    /\ nphase = "twice"
    /\ nout1.den # Unit
    /\ \E i, j \in 1..Len(nout1.pairs) : i < j /\ nout1.pairs[i].p = nout1.pairs[j].p

\* ========================================================================
\* The batch runner: run() / intersect_one_parcel_batch() and
\* _intersect_one_parcel()
\* ========================================================================

\* ------------------------------------------------------------------------
\* Bounds of the batch model
\* ------------------------------------------------------------------------
\* longest --parcel list (items between commas)
MaxParcels == 3
\* store queries that fail (timeout or exception) during one run
MaxFaults == 2
\* most rows of an AREA query given to the surfaces loop
MaxRows == 2
\* most entries of a mapping.json given to load_layer_map
MaxEntries == 2
\* longest coverage_by given as a string
MaxChars == 3
\* longest coverage_by given as a list
MaxItems == 2

\* ------------------------------------------------------------------------
\* The outside world: communes CSV, cadastre (IGN WFS), spatial store
\* ------------------------------------------------------------------------
EmptyDict == << >>
SqlNull == "<NULL>"
NoInsee == "<None>"

\* v_commune_2025.csv, names already lower-cased and unaccented
CommunesCsv ==
    << [COM |-> "33234", DEP |-> "33", LIBELLE |-> "latresne", NCCENR |-> "latresne"],
       [COM |-> "93066", DEP |-> "93", LIBELLE |-> "saint denis", NCCENR |-> "saint denis"],
       [COM |-> "97411", DEP |-> "974", LIBELLE |-> "saint denis", NCCENR |-> "saint denis"] >>

\* --commune and --departement as typed by the caller
CommuneArgs == {"Latresne", "Saint-Denis", "Nulle-Part"}
DepartementArgs == {"", "33", "93"}

\* _normalize_string on the commune names above (lower case, accents and
\* hyphens replaced, blanks collapsed)
_normalize_string(t) ==
    CASE t = "Latresne" -> "latresne"
      [] t = "Saint-Denis" -> "saint denis"
      [] t = "Nulle-Part" -> "nulle part"
      [] OTHER -> t

\* the same lookup returning the first match when several communes match
InseeFirstMatch(csv, commune_name, department_code) ==
    LET name_norm == _normalize_string(commune_name)
        IsNamed(r) == r.LIBELLE = name_norm \/ r.NCCENR = name_norm
        InDep(r) == r.DEP = department_code
        df == SelectSeq(csv, IsNamed)
        df2 == IF department_code # "" /\ df # << >> THEN SelectSeq(df, InDep) ELSE df
    IN  IF df2 = << >> THEN NoInsee ELSE df2[1].COM

get_insee_from_csv(csv, commune_name, department_code) ==
    LET name_norm == _normalize_string(commune_name)
        IsNamed(r) == r.LIBELLE = name_norm \/ r.NCCENR = name_norm
        InDep(r) == r.DEP = department_code
        df == SelectSeq(csv, IsNamed)
        df2 == IF department_code # "" /\ df # << >> THEN SelectSeq(df, InDep) ELSE df
    IN  IF df2 = << >> THEN NoInsee
        ELSE IF Len(df2) # 1 THEN NoInsee
        ELSE df2[1].COM

\* a JSON string as its characters, a JSON list as its items
JsonStr(chars) == [kind |-> "str", chars |-> chars]
JsonList(items) == [kind |-> "list", items |-> items]

\* mapping.json: key (split at its dots) -> layer description
RawMapping ==
    << [fq |-> << "public", "plu_zonage" >>,
        keep |-> << "libelle", "typezone", "ghost" >>,
        coverage_by |-> JsonList(<< "libelle" >>)],
       [fq |-> << "ppri_zone" >>,
        keep |-> << "codezone" >>, coverage_by |-> JsonList(<< "codezone" >>)],
       [fq |-> << "public", "ppri_zone" >>,
        keep |-> << "codezone" >>, coverage_by |-> JsonList(<< "codezone" >>)],
       [fq |-> << "cadastre", "sections" >>,
        keep |-> << >>, coverage_by |-> JsonList(<< >>)],
       [fq |-> << "public", "bruit" >>,
        keep |-> << "niveau" >>, coverage_by |-> JsonList(<< >>)] >>

\* --schema-whitelist (default ["public"])
SchemaWhitelist == {"public"}

\* str.split(","): the pieces between the commas
RECURSIVE SplitCommas(_, _)
SplitCommas(chars, piece) ==
    IF chars = << >> THEN << piece >>
    ELSE IF Head(chars) = "," THEN << piece >> \o SplitCommas(Tail(chars), << >>)
    ELSE SplitCommas(Tail(chars), Append(piece, Head(chars)))

RECURSIVE LStrip(_)
LStrip(chars) ==
    IF chars # << >> /\ Head(chars) = " " THEN LStrip(Tail(chars)) ELSE chars

RECURSIVE RStrip(_)
RStrip(chars) ==
    IF chars # << >> /\ chars[Len(chars)] = " "
    THEN RStrip(SubSeq(chars, 1, Len(chars) - 1)) ELSE chars

\* str.strip()
Strip(chars) == RStrip(LStrip(chars))

\* [c.strip() for c in coverage_by.split(",") if c.strip()] for a string, the
\* value as it is otherwise
CoverageByOf(coverage_by) ==
    IF coverage_by.kind = "str"
    THEN LET pieces == SplitCommas(coverage_by.chars, << >>)
             stripped == [j \in 1..Len(pieces) |-> Strip(pieces[j])]
             NonEmpty(c) == c # << >>
         IN  SelectSeq(stripped, NonEmpty)
    ELSE coverage_by.items

\* the parts of a key after the first dot, joined again: fq.split(".", 1)[1]
RECURSIVE JoinDots(_)
JoinDots(parts) ==
    IF Len(parts) = 1 THEN parts[1] ELSE parts[1] \o "." \o JoinDots(Tail(parts))

\* a key that keeps every table whose name has no dot of its own
ExactlyOneDot(fq) == Len(fq) = 2

\* '"." in fq'
HasDelimiter(fq) == Len(fq) >= 2

load_layer_map(raw) ==
    LET Dotted(e) == HasDelimiter(e.fq)
        wellformed == SelectSeq(raw, Dotted)
    IN  [j \in 1..Len(wellformed) |->
            [schema |-> wellformed[j].fq[1],
             table |-> JoinDots(Tail(wellformed[j].fq)),
             geom_col |-> "geom",
             keep |-> wellformed[j].keep,
             coverage_by |-> CoverageByOf(wellformed[j].coverage_by)]]

FilterSchemas(layers_all, whitelist) ==
    LET Allowed(l) == l.schema \in whitelist
    IN  SelectSeq(layers_all, Allowed)

\* items of the --parcel string: the blank-separated parts of each item
RawItems ==
    { << "AC", "0494" >>, << "ac", "494" >>, << "AD", "0598" >>,
      << "ZZ", "0001" >>, << "AD0598" >> }

Upper(t) == CASE t = "ac" -> "AC" [] OTHER -> t
Zfill4(t) == CASE t = "494" -> "0494" [] OTHER -> t

RECURSIVE _parse_parcel_refs(_)
_parse_parcel_refs(items) ==
    IF items = << >> THEN << >>
    ELSE (IF Len(Head(items)) # 2 THEN << >>
          ELSE << << Upper(Head(items)[1]), Zfill4(Head(items)[2]) >> >>)
            \o _parse_parcel_refs(Tail(items))

\* parcels the IGN cadastre knows, by INSEE code, section and number
Cadastre == { << "33234", "AC", "0494" >>, << "33234", "AD", "0598" >> }

\* locate_parcel_feature when the WFS answers: feats[0] or {}
WfsFeature(insee_code, section, numero4) ==
    IF << insee_code, section, numero4 >> \in Cadastre
    THEN [properties |-> [section |-> section, numero |-> numero4],
          geometry |-> << section, numero4, "raw" >>]
    ELSE EmptyDict

\* what detect_and_carve_enclaves returns for a parcel feature
CarveInfo(feature) ==
    LET sec == feature.properties.section
        num == feature.properties.numero
    IN  [host_corrected_geojson_4326 |-> << sec, num, "carved" >>,
         stats |-> [enclave_count |-> IF sec = "AC" THEN 1 ELSE 0],
         holes_in_host |-> [count |-> 0]]

\* planar area (m2) of a parcel geometry: ST_Area(p.g)
ParcelArea(geom) ==
    CASE geom = << "AC", "0494", "raw" >> -> 1000
      [] geom = << "AC", "0494", "carved" >> -> 800
      [] OTHER -> 500

\* columns of the tables of the store (information_schema.columns)
Columns(table) ==
    CASE table = "plu_zonage" -> << "id", "libelle", "typezone", "geom_2154" >>
      [] table = "ppri_zone" -> << "gid", "codezone", "geom_2154" >>
      [] table = "bruit" -> << "id", "niveau", "geom_2154" >>
      [] OTHER -> << >>

\* rows of a table whose geometry intersects the parcel geometry geom, each with
\* the area of its intersection with the parcel (0: the feature only touches)
Intersecting(table, geom) ==
    CASE table = "plu_zonage" /\ geom = << "AC", "0494", "raw" >> ->
            << [id |-> "1", libelle |-> "N", typezone |-> "N", inter |-> 600],
               [id |-> "2", libelle |-> "UA", typezone |-> "U", inter |-> 400],
               [id |-> "3", libelle |-> "N", typezone |-> SqlNull, inter |-> 600] >>
      [] table = "plu_zonage" /\ geom = << "AC", "0494", "carved" >> ->
            << [id |-> "1", libelle |-> "N", typezone |-> "N", inter |-> 500],
               [id |-> "2", libelle |-> "UA", typezone |-> "U", inter |-> 300],
               [id |-> "3", libelle |-> "N", typezone |-> SqlNull, inter |-> 500] >>
      [] table = "ppri_zone" /\ geom = << "AC", "0494", "raw" >> ->
            << [gid |-> "7", codezone |-> "Rouge", inter |-> 0] >>
      [] table = "ppri_zone" /\ geom = << "AC", "0494", "carved" >> ->
            << [gid |-> "7", codezone |-> "Rouge", inter |-> 0],
               [gid |-> "8", codezone |-> "Bleu", inter |-> 200] >>
      [] table = "plu_zonage" /\ geom[1] = "AD" ->
            << [id |-> "4", libelle |-> "N", typezone |-> "N", inter |-> 500] >>
      [] table = "bruit" /\ geom[1] = "AD" ->
            << [id |-> "9", niveau |-> "3", inter |-> 250],
               [id |-> "10", niveau |-> "3", inter |-> 0] >>
      [] OTHER -> << >>

\* ------------------------------------------------------------------------
\* Store queries of _intersect_one_parcel, as the store answers them
\* ------------------------------------------------------------------------
\* --values-limit (default 100)
values_limit == 100
\* parcel_area_m2 = None
NoArea == -1
\* pct_of_parcel = None
NonePct == [n |-> 0, d |-> 0]
NoGeom == << >>

list_existing_columns(schema, table) == Columns(table)

InColumns(col, cols) == \E j \in 1..Len(cols) : cols[j] = col

\* the whitelist taken as it is, without looking at the schema
KeepAll(keep, cols) == keep

\* keep_effective = [c for c in lyr["keep"] if c in set(list_existing_columns(...))]
KeepEffective(keep, cols) == LET Exists(c) == InColumns(c, cols) IN SelectSeq(keep, Exists)

\* COUNT_SQL_PARCEL
CountSql(table, geom) == Len(Intersecting(table, geom))

\* a test that lets a count of 0 through
NoHitBelowZero(count) == count < 0

\* "if n <= 0: continue"
NoHit(count) == count <= 0

RECURSIVE Dedup(_, _)
Dedup(seq, seen) ==
    IF seq = << >> THEN << >>
    ELSE IF Head(seq) \in seen THEN Dedup(Tail(seq), seen)
         ELSE << Head(seq) >> \o Dedup(Tail(seq), seen \cup {Head(seq)})

\* VALUES_SQL_PARCEL: SELECT DISTINCT col::text ... WHERE col IS NOT NULL LIMIT :lim
ValuesSql(table, geom, col, lim) ==
    LET rows == Intersecting(table, geom)
        all == Dedup([j \in 1..Len(rows) |-> rows[j][col]], {SqlNull})
    IN  SubSeq(all, 1, Min(lim, Len(all)))

\* AREA_SQL_PARCEL: id (or ROW_NUMBER()::text), inter_area_m2, parcel_area_m2 per row
AreaSql(table, geom, id_col) ==
    LET rows == Intersecting(table, geom)
    IN  [j \in 1..Len(rows) |->
            [id |-> IF id_col = "ROW_NUMBER" THEN ToString(j) ELSE rows[j][id_col],
             inter_area_m2 |-> rows[j].inter,
             parcel_area_m2 |-> ParcelArea(geom)]]

\* float(x or 0) of a number of a row (NoArea: SQL NULL)
FloatOr0(x) == IF x = NoArea THEN 0 ELSE x

\* the loop over the AREA rows: parcel_area_m2 is the first row's parcel area
ParcelAreaOf(rows) ==
    IF rows = << >> THEN NoArea ELSE FloatOr0(rows[1].parcel_area_m2)

\* a test that takes an area of 0 for a usable area
TruthyNotNone(area) == area # NoArea

Truthy(area) == area # NoArea /\ area # 0

\* inter_area / parcel_area_m2 * 100
PctOfParcel(inter_area, parcel_area) == [n |-> inter_area * Cap, d |-> parcel_area]

SurfacesOf(rows) ==
    LET area == ParcelAreaOf(rows)
        Positive(r) == FloatOr0(r.inter_area_m2) > 0
        kept == SelectSeq(rows, Positive)
    IN  [j \in 1..Len(kept) |->
            [id |-> kept[j].id,
             inter_area_m2 |-> FloatOr0(kept[j].inter_area_m2),
             pct_of_parcel |-> IF Truthy(area)
                               THEN PctOfParcel(kept[j].inter_area_m2, area)
                               ELSE NonePct]]

RECURSIVE GroupAreas(_, _, _)
GroupAreas(rows, col, agg) ==
    IF rows = << >> THEN agg
    ELSE GroupAreas(Tail(rows), col,
                    IF Head(rows)[col] = SqlNull THEN agg
                    ELSE AggAdd(agg, Head(rows)[col], Head(rows).inter))

\* the coverage query: SUM(area) GROUP BY col, WHERE sum > 0, ORDER BY sum DESC
CoverageSql(table, geom, col) ==
    LET Positive(g) == g.p > 0
    IN  SortDesc(SelectSeq(GroupAreas(Intersecting(table, geom), col, << >>), Positive))

\* cov_list built from the rows of the coverage query
CovList(rows, parcel_area) ==
    LET Kept(r) == FloatOr0(r.p) > 0 /\ Truthy(parcel_area)
        kept == SelectSeq(rows, Kept)
    IN  [j \in 1..Len(kept) |->
            [value |-> kept[j].v,
             inter_area_m2 |-> FloatOr0(kept[j].p),
             pct_of_parcel |-> PctOfParcel(FloatOr0(kept[j].p), parcel_area)]]

\* ------------------------------------------------------------------------
\* State of the batch run
\* ------------------------------------------------------------------------
cfgVars == << variant, carve_enclaves, commune, departement >>
runVars == << insee, layers, refs, ref_idx, all_reports, out >>
parcelVars == << feat, gj, parcel_extra, lyr_idx, results_report, hit_count >>
layerVars == << keep_effective, n, vals_map, ci, parcel_area_m2, surfaces, id_sql,
                coverage_results, cj >>
obsVars == << faults, failed, wfs_called, store_queried, qlog >>
batchVars == << cfgVars, pc, error, runVars, parcelVars, layerVars, obsVars >>
normVars == << nphase, ninput, nout1, nout2 >>
mapVars == << mphase, mraw, mlayers >>
judgeVars == << jphase, jmeta, jres, jverdict >>
areaVars == << aphase, arows, acovrows, asurfaces, acov_list >>
cerfaVars == << cpc, judge, max_judge_retries, judge_attempt, attempt, text, final, judge_results, out_json, calls, last_error >>
orchVars == << opc, pipeline, notify_emails, map_built, report_url, map_url, job_id, result, cua_jobs, sent, failed_step, soft_failures >>
cacheVars == << cphase, craw, ccache, clayer, cfound >>
jobsVars == << jobs, files, uuids, mkstemps >>
pureVars == << normVars, mapVars, judgeVars, areaVars, cerfaVars, orchVars, cacheVars, jobsVars >>
vars == << batchVars, pureVars >>

EmptyDist == [den |-> Unit, pairs |-> << >>]

\* normalize_pairs and load_layer_map not under study
NormOff ==
    /\ nphase = "off"
    /\ ninput = EmptyDist
    /\ nout1 = EmptyDist
    /\ nout2 = EmptyDist

MapOff ==
    /\ mphase = "off"
    /\ mraw = << >>
    /\ mlayers = << >>

JudgeOff ==
    /\ jphase = "off"
    /\ jmeta = << >>
    /\ jres = << >>
    /\ jverdict = << >>

AreaOff ==
    /\ aphase = "off"
    /\ arows = << >>
    /\ acovrows = << >>
    /\ asurfaces = << >>
    /\ acov_list = << >>

CerfaOff ==
    /\ cpc = "off"
    /\ judge = FALSE
    /\ max_judge_retries = 0
    /\ judge_attempt = 0
    /\ attempt = 0
    /\ text = << >>
    /\ final = << >>
    /\ judge_results = << >>
    /\ out_json = << >>
    /\ calls = 0
    /\ last_error = << >>

OrchOff ==
    /\ opc = "off"
    /\ pipeline = "full"
    /\ notify_emails = << >>
    /\ map_built = FALSE
    /\ report_url = None
    /\ map_url = None
    /\ job_id = None
    /\ result = << >>
    /\ cua_jobs = << >>
    /\ sent = 0
    /\ failed_step = ""
    /\ soft_failures = {}

CacheOff ==
    /\ cphase = "off"
    /\ craw = << >>
    /\ ccache = << >>
    /\ clayer = << >>
    /\ cfound = << >>

JobsOff ==
    /\ jobs = << >>
    /\ files = {}
    /\ uuids = 0
    /\ mkstemps = 0

\* the run before its first step (or never started: start = "off")
RunInit(start) ==
    /\ pc = start
    /\ error = ""
    /\ insee = NoInsee
    /\ layers = << >>
    /\ refs = << >>
    /\ ref_idx = 1
    /\ all_reports = << >>
    /\ out = EmptyDict
    /\ feat = EmptyDict
    /\ gj = NoGeom
    /\ parcel_extra = EmptyDict
    /\ lyr_idx = 1
    /\ results_report = << >>
    /\ hit_count = 0
    /\ keep_effective = << >>
    /\ n = 0
    /\ vals_map = EmptyDict
    /\ ci = 1
    /\ parcel_area_m2 = NoArea
    /\ surfaces = << >>
    /\ id_sql = ""
    /\ coverage_results = EmptyDict
    /\ cj = 1
    /\ faults = 0
    /\ failed = {}
    /\ wfs_called = FALSE
    /\ store_queried = FALSE
    /\ qlog = << >>

\* an exception leaves the run
Raise(kind) ==
    /\ pc' = "raised"
    /\ error' = kind

ResetLayer ==
    /\ keep_effective' = << >>
    /\ n' = 0
    /\ vals_map' = EmptyDict
    /\ ci' = 1
    /\ parcel_area_m2' = NoArea
    /\ surfaces' = << >>
    /\ id_sql' = ""
    /\ coverage_results' = EmptyDict
    /\ cj' = 1

\* "continue": on to the next layer of the catalog
NextLayer ==
    /\ lyr_idx' = lyr_idx + 1
    /\ pc' = "layer"
    /\ qlog' = << >>
    /\ ResetLayer

Issue(q) ==
    /\ store_queried' = TRUE
    /\ qlog' = Append(qlog, q)

lyr == layers[lyr_idx]

\* ------------------------------------------------------------------------
\* run(): INSEE, engine, catalog, parcel references
\* ------------------------------------------------------------------------
Init ==
    /\ variant \in {"INTERSECTIONS", "flat"}
    /\ carve_enclaves \in BOOLEAN
    /\ commune \in CommuneArgs
    /\ departement \in DepartementArgs
    /\ RunInit("insee")
    /\ NormOff
    /\ MapOff
    /\ JudgeOff
    /\ AreaOff
    /\ CerfaOff
    /\ OrchOff
    /\ CacheOff
    /\ JobsOff

\* get_insee_from_csv cannot read the CSV: RuntimeError
InseeCsvUnreadable ==
    /\ pc = "insee"
    /\ Raise("csv")
    /\ UNCHANGED << cfgVars, runVars, parcelVars, layerVars, obsVars, pureVars >>

\* "if not insee: raise RuntimeError"
InseeUnresolved ==
    /\ pc = "insee"
    /\ get_insee_from_csv(CommunesCsv, commune, departement) = NoInsee
    /\ Raise("insee")
    /\ UNCHANGED << cfgVars, runVars, parcelVars, layerVars, obsVars, pureVars >>

InseeResolved ==
    /\ pc = "insee"
    /\ get_insee_from_csv(CommunesCsv, commune, departement) # NoInsee
    /\ insee' = get_insee_from_csv(CommunesCsv, commune, departement)
    /\ pc' = "engine"
    /\ UNCHANGED << cfgVars, error, layers, refs, ref_idx, all_reports, out,
                    parcelVars, layerVars, obsVars, pureVars >>

\* get_engine(): connection and "select 1"
EngineOpened ==
    /\ pc = "engine"
    /\ pc' = "mapping"
    /\ UNCHANGED << cfgVars, error, runVars, parcelVars, layerVars, obsVars, pureVars >>

EngineFails ==
    /\ pc = "engine"
    /\ Raise("engine")
    /\ UNCHANGED << cfgVars, runVars, parcelVars, layerVars, obsVars, pureVars >>

\* load_layer_map and the schema whitelist
CatalogLoaded ==
    /\ pc = "mapping"
    /\ layers' = FilterSchemas(load_layer_map(RawMapping), SchemaWhitelist)
    /\ pc' = "refs"
    /\ UNCHANGED << cfgVars, error, insee, refs, ref_idx, all_reports, out,
                    parcelVars, layerVars, obsVars, pureVars >>

\* mapping.json cannot be read or parsed
CatalogUnreadable ==
    /\ pc = "mapping"
    /\ Raise("mapping")
    /\ UNCHANGED << cfgVars, runVars, parcelVars, layerVars, obsVars, pureVars >>

\* _parse_parcel_refs and "if not refs: raise"
RefsParsed ==
    /\ pc = "refs"
    /\ \E items \in SeqsUpTo(MaxParcels, RawItems) :
          /\ _parse_parcel_refs(items) # << >>
          /\ refs' = _parse_parcel_refs(items)
    /\ ref_idx' = 1
    /\ pc' = "locate"
    /\ UNCHANGED << cfgVars, error, insee, layers, all_reports, out,
                    parcelVars, layerVars, obsVars, pureVars >>

RefsEmpty ==
    /\ pc = "refs"
    /\ \E items \in SeqsUpTo(MaxParcels, RawItems) : _parse_parcel_refs(items) = << >>
    /\ Raise("norefs")
    /\ UNCHANGED << cfgVars, runVars, parcelVars, layerVars, obsVars, pureVars >>

\* ------------------------------------------------------------------------
\* run(): the loop over the parcel references
\* ------------------------------------------------------------------------
\* locate_parcel_feature raises (requests error, HTTP error status)
LocateRaises ==
    /\ pc = "locate"
    /\ ref_idx <= Len(refs)
    /\ wfs_called' = TRUE
    /\ Raise("wfs")
    /\ UNCHANGED << cfgVars, runVars, parcelVars, layerVars, faults, failed, store_queried, qlog,
                    pureVars >>

\* a loop that drops a reference whose parcel is not found
LocateNotFoundSkips ==
    /\ pc = "locate"
    /\ ref_idx <= Len(refs)
    /\ WfsFeature(insee, refs[ref_idx][1], refs[ref_idx][2]) = EmptyDict
    /\ wfs_called' = TRUE
    /\ ref_idx' = ref_idx + 1
    /\ UNCHANGED << cfgVars, pc, error, insee, layers, refs, all_reports, out, parcelVars,
                    layerVars, faults, failed, store_queried, qlog, pureVars >>

\* "if not feat": the error entry, then the next reference
LocateNotFound ==
    /\ pc = "locate"
    /\ ref_idx <= Len(refs)
    /\ WfsFeature(insee, refs[ref_idx][1], refs[ref_idx][2]) = EmptyDict
    /\ wfs_called' = TRUE
    /\ all_reports' = Append(all_reports,
            [parcel |-> [label |-> << refs[ref_idx][1], refs[ref_idx][2] >>, srid |-> 4326],
             error |-> << "Parcelle non trouvee", insee, refs[ref_idx][1], refs[ref_idx][2] >>])
    /\ ref_idx' = ref_idx + 1
    /\ UNCHANGED << cfgVars, pc, error, insee, layers, refs, out, parcelVars, layerVars,
                    faults, failed, store_queried, qlog, pureVars >>

LocateFound ==
    /\ pc = "locate"
    /\ ref_idx <= Len(refs)
    /\ WfsFeature(insee, refs[ref_idx][1], refs[ref_idx][2]) # EmptyDict
    /\ wfs_called' = TRUE
    /\ feat' = WfsFeature(insee, refs[ref_idx][1], refs[ref_idx][2])
    /\ pc' = "geometry"
    /\ UNCHANGED << cfgVars, error, runVars, gj, parcel_extra, lyr_idx, results_report, hit_count,
                    layerVars, faults, failed, store_queried, qlog, pureVars >>

\* ------------------------------------------------------------------------
\* _intersect_one_parcel: geometry
\* ------------------------------------------------------------------------
\* one results list shared by the parcels: the entries of the parcel before stay
StartLayersShared ==
    /\ lyr_idx' = 1
    /\ results_report' =
          IF all_reports # << >> /\ "results" \in DOMAIN all_reports[Len(all_reports)]
          THEN all_reports[Len(all_reports)].results ELSE << >>
    /\ hit_count' =
          IF all_reports # << >> /\ "results" \in DOMAIN all_reports[Len(all_reports)]
          THEN all_reports[Len(all_reports)].layers_with_hits ELSE 0
    /\ pc' = "layer"

StartLayers ==
    /\ lyr_idx' = 1
    /\ results_report' = << >>
    /\ hit_count' = 0
    /\ pc' = "layer"

\* carve_enclaves: detect_and_carve_enclaves returns
CarveDone ==
    /\ pc = "geometry"
    /\ carve_enclaves
    /\ LET info == CarveInfo(feat)
       IN  /\ gj' = info.host_corrected_geojson_4326
           /\ parcel_extra' =
                 [enclaves |-> [count |-> info.stats.enclave_count],
                  holes_in_host |-> [count |-> info.holes_in_host.count]]
    /\ StartLayers
    /\ UNCHANGED << cfgVars, error, runVars, feat, layerVars, obsVars, pureVars >>

\* carve_enclaves: detect_and_carve_enclaves raises; nothing catches it
CarveRaises ==
    /\ pc = "geometry"
    /\ carve_enclaves
    /\ Raise("carve")
    /\ UNCHANGED << cfgVars, runVars, parcelVars, layerVars, obsVars, pureVars >>

\* the toggle ignored: the correction step runs although carve_enclaves is off
RawGeometryCarved ==
    /\ pc = "geometry"
    /\ ~carve_enclaves
    /\ LET info == CarveInfo(feat)
       IN  /\ gj' = info.host_corrected_geojson_4326
           /\ parcel_extra' =
                 [enclaves |-> [count |-> info.stats.enclave_count],
                  holes_in_host |-> [count |-> info.holes_in_host.count]]
    /\ StartLayers
    /\ UNCHANGED << cfgVars, error, runVars, feat, layerVars, obsVars, pureVars >>

\* not carve_enclaves: the acquired geometry
RawGeometry ==
    /\ pc = "geometry"
    /\ ~carve_enclaves
    /\ gj' = feat.geometry
    /\ parcel_extra' = EmptyDict
    /\ StartLayers
    /\ UNCHANGED << cfgVars, error, runVars, feat, layerVars, obsVars, pureVars >>

\* ------------------------------------------------------------------------
\* _intersect_one_parcel: the loop over the layers
\* ------------------------------------------------------------------------
CanFail == faults < MaxFaults

\* a failure that throws away the results collected for the parcel so far
LayerQueryFailsDropsResults(q) ==
    /\ CanFail
    /\ faults' = faults + 1
    /\ failed' = failed \cup {<< ref_idx, lyr_idx >>}
    /\ store_queried' = TRUE
    /\ NextLayer
    /\ results_report' = << >>
    /\ UNCHANGED << error, hit_count >>
    /\ UNCHANGED << cfgVars, runVars, feat, gj, parcel_extra, wfs_called, pureVars >>

\* a store query of the current layer raises (timeout, SQL error).  The package
\* module catches it in the layer's try block and continues with the next layer;
\* the flat module has no try block, the exception leaves the run.
LayerQueryFails(q) ==
    /\ CanFail
    /\ faults' = faults + 1
    /\ failed' = failed \cup {<< ref_idx, lyr_idx >>}
    /\ store_queried' = TRUE
    /\ IF variant = "INTERSECTIONS"
       THEN /\ NextLayer
            /\ UNCHANGED << error, results_report, hit_count >>
       ELSE /\ Raise(q)
            /\ qlog' = Append(qlog, q)
            /\ UNCHANGED << lyr_idx, results_report, hit_count, layerVars >>
    /\ UNCHANGED << cfgVars, runVars, feat, gj, parcel_extra, wfs_called, pureVars >>

\* keep_effective = [... list_existing_columns(eng, schema, table) ...]
\* (before the try block in both modules)
ColumnsListed ==
    /\ pc = "layer"
    /\ lyr_idx <= Len(layers)
    /\ Issue("columns")
    /\ keep_effective' = KeepEffective(lyr.keep, list_existing_columns(lyr.schema, lyr.table))
    /\ pc' = "count"
    /\ UNCHANGED << cfgVars, error, runVars, parcelVars, n, vals_map, ci, parcel_area_m2,
                    surfaces, id_sql, coverage_results, cj, faults, failed, wfs_called, pureVars >>

ColumnsFails ==
    /\ pc = "layer"
    /\ lyr_idx <= Len(layers)
    /\ CanFail
    /\ faults' = faults + 1
    /\ failed' = failed \cup {<< ref_idx, lyr_idx >>}
    /\ Issue("columns")
    /\ Raise("columns")
    /\ UNCHANGED << cfgVars, runVars, parcelVars, layerVars, wfs_called, pureVars >>

\* COUNT query answered, n <= 0: continue
CountZero ==
    /\ pc = "count"
    /\ NoHit(CountSql(lyr.table, gj))
    /\ store_queried' = TRUE
    /\ NextLayer
    /\ UNCHANGED << cfgVars, error, runVars, feat, gj, parcel_extra, results_report,
                    hit_count, faults, failed, wfs_called, pureVars >>

\* COUNT query answered, n > 0 (the flat module counts the hit at once)
CountPositive ==
    /\ pc = "count"
    /\ ~NoHit(CountSql(lyr.table, gj))
    /\ Issue("count")
    /\ n' = CountSql(lyr.table, gj)
    /\ hit_count' = IF variant = "flat" THEN hit_count + 1 ELSE hit_count
    /\ vals_map' = EmptyDict
    /\ ci' = 1
    /\ pc' = IF keep_effective = << >> THEN "idcol" ELSE "values"
    /\ UNCHANGED << cfgVars, error, runVars, feat, gj, parcel_extra, lyr_idx, results_report,
                    keep_effective, parcel_area_m2, surfaces, id_sql, coverage_results, cj,
                    faults, failed, wfs_called, pureVars >>

CountFails ==
    /\ pc = "count"
    /\ LayerQueryFails("count")

\* VALUES query of the column keep_effective[ci]
ValuesFetched ==
    /\ pc = "values"
    /\ Issue("values:" \o keep_effective[ci])
    /\ vals_map' = vals_map @@
          (keep_effective[ci] :> ValuesSql(lyr.table, gj, keep_effective[ci], values_limit))
    /\ ci' = ci + 1
    /\ pc' = IF ci = Len(keep_effective) THEN "idcol" ELSE "values"
    /\ UNCHANGED << cfgVars, error, runVars, parcelVars, keep_effective, n, parcel_area_m2,
                    surfaces, id_sql, coverage_results, cj, faults, failed, wfs_called, pureVars >>

ValuesFails ==
    /\ pc = "values"
    /\ LayerQueryFails("values")

\* no fallback: the identifier column is taken for granted and its absence is
\* an error of the layer
IdColumnRequired ==
    /\ pc = "idcol"
    /\ Issue("columns")
    /\ IF InColumns("id", list_existing_columns(lyr.schema, lyr.table))
       THEN /\ id_sql' = "id"
            /\ pc' = "area"
            /\ error' = error
       ELSE /\ id_sql' = id_sql
            /\ Raise("idcol")
    /\ UNCHANGED << cfgVars, runVars, parcelVars, keep_effective, n, vals_map, ci,
                    parcel_area_m2, surfaces, coverage_results, cj, faults, failed, wfs_called,
                    pureVars >>

\* id_col in set(list_existing_columns(...)) or ROW_NUMBER()
IdColumnChosen ==
    /\ pc = "idcol"
    /\ Issue("columns")
    /\ id_sql' = IF InColumns("id", list_existing_columns(lyr.schema, lyr.table))
                 THEN "id" ELSE "ROW_NUMBER"
    /\ pc' = "area"
    /\ UNCHANGED << cfgVars, error, runVars, parcelVars, keep_effective, n, vals_map, ci,
                    parcel_area_m2, surfaces, coverage_results, cj, faults, failed, wfs_called,
                    pureVars >>

IdColumnFails ==
    /\ pc = "idcol"
    /\ LayerQueryFails("columns")

\* AREA query and the loop over its rows
AreaComputed ==
    /\ pc = "area"
    /\ Issue("area")
    /\ LET rows == AreaSql(lyr.table, gj, id_sql)
       IN  /\ parcel_area_m2' = ParcelAreaOf(rows)
           /\ surfaces' = SurfacesOf(rows)
    /\ coverage_results' = EmptyDict
    /\ cj' = 1
    /\ pc' = IF lyr.coverage_by = << >> THEN "append" ELSE "coverage"
    /\ UNCHANGED << cfgVars, error, runVars, parcelVars, keep_effective, n, vals_map, ci,
                    id_sql, faults, failed, wfs_called, pureVars >>

AreaFails ==
    /\ pc = "area"
    /\ LayerQueryFails("area")

\* coverage query of the attribute coverage_by[cj]; the flat module stores the
\* list only when it is not empty
CoverageComputed ==
    /\ pc = "coverage"
    /\ InColumns(lyr.coverage_by[cj], Columns(lyr.table))
    /\ Issue("coverage")
    /\ LET cov_col == lyr.coverage_by[cj]
           cov_list == CovList(CoverageSql(lyr.table, gj, cov_col), parcel_area_m2)
       IN  coverage_results' =
              IF variant = "flat" /\ cov_list = << >> THEN coverage_results
              ELSE coverage_results @@ (cov_col :> cov_list)
    /\ cj' = cj + 1
    /\ pc' = IF cj = Len(lyr.coverage_by) THEN "append" ELSE "coverage"
    /\ UNCHANGED << cfgVars, error, runVars, parcelVars, keep_effective, n, vals_map, ci,
                    parcel_area_m2, surfaces, id_sql, faults, failed, wfs_called, pureVars >>

CoverageFails ==
    /\ pc = "coverage"
    /\ LayerQueryFails("coverage")

\* the result appended without counting the hit
ResultAppendedUncounted ==
    /\ pc = "append"
    /\ results_report' = Append(results_report,
          [nom |-> lyr.table,
           schema |-> lyr.schema,
           table |-> lyr.table,
           geom_col |-> IF variant = "flat" THEN lyr.geom_col ELSE "geom_2154",
           srid |-> IF variant = "flat" THEN 4326 ELSE 2154,
           count |-> n,
           values |-> vals_map,
           surfaces |-> surfaces,
           coverage |-> coverage_results,
           parcel_area_m2 |-> parcel_area_m2])
    /\ hit_count' = hit_count
    /\ NextLayer
    /\ UNCHANGED << cfgVars, error, runVars, feat, gj, parcel_extra, faults, failed, wfs_called,
                    store_queried, pureVars >>

\* the result put in front of the list (completion order instead of catalog order)
ResultAppendedFirst ==
    /\ pc = "append"
    /\ results_report' = << [nom |-> lyr.table,
           schema |-> lyr.schema,
           table |-> lyr.table,
           geom_col |-> IF variant = "flat" THEN lyr.geom_col ELSE "geom_2154",
           srid |-> IF variant = "flat" THEN 4326 ELSE 2154,
           count |-> n,
           values |-> vals_map,
           surfaces |-> surfaces,
           coverage |-> coverage_results,
           parcel_area_m2 |-> parcel_area_m2] >> \o results_report
    /\ hit_count' = IF variant = "flat" THEN hit_count ELSE hit_count + 1
    /\ NextLayer
    /\ UNCHANGED << cfgVars, error, runVars, feat, gj, parcel_extra, faults, failed, wfs_called,
                    store_queried, pureVars >>

\* results_report.append({...}); the package module counts the hit here
ResultAppended ==
    /\ pc = "append"
    /\ results_report' = Append(results_report,
          [nom |-> lyr.table,
           schema |-> lyr.schema,
           table |-> lyr.table,
           geom_col |-> IF variant = "flat" THEN lyr.geom_col ELSE "geom_2154",
           srid |-> IF variant = "flat" THEN 4326 ELSE 2154,
           count |-> n,
           values |-> vals_map,
           surfaces |-> surfaces,
           coverage |-> coverage_results,
           parcel_area_m2 |-> parcel_area_m2])
    /\ hit_count' = IF variant = "flat" THEN hit_count ELSE hit_count + 1
    /\ NextLayer
    /\ UNCHANGED << cfgVars, error, runVars, feat, gj, parcel_extra, faults, failed, wfs_called,
                    store_queried, pureVars >>

\* the end of the layers: report_one, all_reports.append(r), next reference
ParcelReported ==
    /\ pc = "layer"
    /\ lyr_idx > Len(layers)
    /\ all_reports' = Append(all_reports,
          [parcel |-> [label |-> << feat.properties.section, feat.properties.numero >>,
                       srid |-> 4326] @@ parcel_extra,
           layers_with_hits |-> hit_count,
           results |-> results_report])
    /\ ref_idx' = ref_idx + 1
    /\ pc' = "locate"
    /\ feat' = EmptyDict
    /\ gj' = NoGeom
    /\ parcel_extra' = EmptyDict
    /\ lyr_idx' = 1
    /\ results_report' = << >>
    /\ hit_count' = 0
    /\ UNCHANGED << cfgVars, error, insee, layers, refs, out, layerVars, obsVars, pureVars >>

\* the end of the references: the BatchReport is written
ReportWritten ==
    /\ pc = "locate"
    /\ ref_idx > Len(refs)
    /\ out' = [commune |-> commune, departement |-> departement, insee |-> insee,
               reports |-> all_reports]
    /\ pc' = "done"
    /\ UNCHANGED << cfgVars, error, insee, layers, refs, ref_idx, all_reports,
                    parcelVars, layerVars, obsVars, pureVars >>

Next ==
    \/ InseeCsvUnreadable \/ InseeUnresolved \/ InseeResolved
    \/ EngineOpened \/ EngineFails
    \/ CatalogLoaded \/ CatalogUnreadable
    \/ RefsParsed \/ RefsEmpty
    \/ LocateRaises \/ LocateNotFound \/ LocateFound
    \/ CarveDone \/ CarveRaises \/ RawGeometry
    \/ ColumnsListed \/ ColumnsFails
    \/ CountZero \/ CountPositive \/ CountFails
    \/ ValuesFetched \/ ValuesFails
    \/ IdColumnChosen \/ IdColumnFails
    \/ AreaComputed \/ AreaFails
    \/ CoverageComputed \/ CoverageFails
    \/ ResultAppended
    \/ ParcelReported
    \/ ReportWritten

Spec == Init /\ [][Next]_vars

\* ------------------------------------------------------------------------
\* The document builder reading a report: mapping_for and coverage_pairs
\* ------------------------------------------------------------------------
HasKey(d, key) == \E j \in 1..Len(d) : d[j].k = key

\* "if k and k not in d: d[k] = val"
_put_mapping_key(d, key, val) ==
    IF key = << >> \/ HasKey(d, key) THEN d ELSE Append(d, [k |-> key, v |-> val])

\* dict.update for one key
DictSet(d, key, val) ==
    IF HasKey(d, key)
    THEN [j \in 1..Len(d) |-> IF d[j].k = key THEN [k |-> key, v |-> val] ELSE d[j]]
    ELSE Append(d, [k |-> key, v |-> val])

\* 1) the keys as they are in the JSON
RECURSIVE ExactKeys(_, _)
ExactKeys(raw, d) ==
    IF raw = << >> THEN d
    ELSE ExactKeys(Tail(raw), _put_mapping_key(d, Head(raw).fq, Head(raw)))

\* 2) the variants "table" and "public.table"
RECURSIVE ExtraKeys(_, _)
ExtraKeys(items, extras) ==
    IF items = << >> THEN extras
    ELSE LET key == Head(items).k
             val == Head(items).v
         IN  ExtraKeys(Tail(items),
                IF Len(key) >= 2
                THEN _put_mapping_key(_put_mapping_key(extras, << key[2] >>, val),
                                      << "public", key[2] >>, val)
                ELSE _put_mapping_key(extras, << "public", key[1] >>, val))

RECURSIVE DictUpdate(_, _)
DictUpdate(d, extras) ==
    IF extras = << >> THEN d
    ELSE DictUpdate(DictSet(d, Head(extras).k, Head(extras).v), Tail(extras))

\* the module-level load on the parsed mapping_layers.json
LoadLayerMapping(raw) ==
    LET exact == ExactKeys(raw, << >>)
    IN  DictUpdate(exact, ExtraKeys(exact, << >>))

_LAYER_MAPPING == LoadLayerMapping(RawMapping)

DictGet(d, key) == (CHOOSE j \in 1..Len(d) : d[j].k = key)

\* 'schema.table', then 'public.table', then 'table'; {} when none is known
MappingFor(cache, layer) ==
    LET candidates ==
            (IF layer.schema # "" /\ layer.table # ""
             THEN << << layer.schema, layer.table >> >> ELSE << >>)
            \o (IF layer.table # ""
                THEN << << "public", layer.table >>, << layer.table >> >> ELSE << >>)
        Known(key) == HasKey(cache, key)
        found == SelectSeq(candidates, Known)
    IN  IF found = << >> THEN EmptyDict
        ELSE cache[DictGet(cache, found[1])].v

mapping_for(layer) == MappingFor(_LAYER_MAPPING, layer)

RECURSIVE KeysList(_)
KeysList(keys) ==
    IF keys = {} THEN << >>
    ELSE LET key == CHOOSE x \in keys : TRUE IN << key >> \o KeysList(keys \ {key})

\* [(str(value or ""), float(pct_capped or pct_of_parcel or 0.0))] of one coverage list
PairsOfCoverage(arr) ==
    [j \in 1..Len(arr) |-> [v |-> S(arr[j].value), p |-> arr[j].pct_of_parcel.n]]

\* pairs of the first field of fields whose coverage list is not empty
RECURSIVE FirstPairs(_, _)
FirstPairs(fields, cov) ==
    IF fields = << >> THEN EmptyDist
    ELSE IF Head(fields) \in DOMAIN cov /\ cov[Head(fields)] # << >>
         THEN [den |-> cov[Head(fields)][1].pct_of_parcel.d,
               pairs |-> PairsOfCoverage(cov[Head(fields)])]
         ELSE FirstPairs(Tail(fields), cov)

coverage_pairs(layer) ==
    LET cov == layer.coverage
        m == mapping_for(layer)
        fields == IF m # EmptyDict /\ m.coverage_by.items # << >> THEN m.coverage_by.items
                  ELSE KeysList(DOMAIN cov)
        declared == FirstPairs(fields, cov)
        fallback == FirstPairs(KeysList(DOMAIN cov), cov)
    IN  IF cov = EmptyDict THEN EmptyDist
        ELSE IF declared.pairs # << >> THEN normalize_pairs(declared)
        ELSE IF fallback.pairs # << >> THEN normalize_pairs(fallback)
        ELSE EmptyDist

\* ------------------------------------------------------------------------
\* Properties of the batch run
\* ------------------------------------------------------------------------
InCadastre(ref) == << insee, ref[1], ref[2] >> \in Cadastre

IsErrorEntry(rep) ==
    /\ DOMAIN rep = {"parcel", "error"}
    /\ DOMAIN rep.parcel = {"label", "srid"}

IsParcelReport(rep) ==
    /\ DOMAIN rep = {"parcel", "layers_with_hits", "results"}
    /\ {"label", "srid"} \subseteq DOMAIN rep.parcel

\* the geometry the store was queried with for the parcel of a report
GeomOfLabel(label) ==
    << label[1], label[2], IF carve_enclaves THEN "carved" ELSE "raw" >>

\* C2: the reports of a BatchReport are as many as the parcel references, in the
\* order of the references; the entry of a reference whose parcel is not found
\* holds only the parcel label (with its srid) and an error message, the entry of
\* every other reference is a ParcelReport (parcel, layers_with_hits, results),
\* whatever the entries before and after it are. The reports collected so far
\* follow the same rule at every step of the loop.
C2_BatchIsolation ==
    /\ Len(all_reports) <= Len(refs)
    /\ \A j \in 1..Len(all_reports) :
          /\ all_reports[j].parcel.label = << refs[j][1], refs[j][2] >>
          /\ IF InCadastre(refs[j]) THEN IsParcelReport(all_reports[j])
             ELSE IsErrorEntry(all_reports[j])
    /\ pc \in {"locate", "done"} => Len(all_reports) = ref_idx - 1
    /\ pc = "done" =>
          /\ out.reports = all_reports
          /\ Len(out.reports) = Len(refs)

\* C2 witness: a BatchReport of three references was written, the second of them
\* not found, the first and the third with intersection results.
C2_Witness ==
    /\ pc = "done"
    /\ Len(refs) = 3
    /\ ~InCadastre(refs[2])
    /\ InCadastre(refs[1]) /\ InCadastre(refs[3])
    /\ IsErrorEntry(out.reports[2])
    /\ out.reports[1].results # << >>
    /\ out.reports[3].results # << >>

\* C3: a hard failure of the geometry acquisition for one reference (timeout,
\* HTTP error status) is recorded as an error entry for that parcel and never
\* leaves the run as an exception.
C3_HardFailureRecorded == ~(pc = "raised" /\ error = "wfs")

\* C4: when a store query made for a layer L fails (schema introspection
\* included), no exception leaves _intersect_one_parcel, L is absent from the
\* results and the results of the other layers are what they would be had L
\* produced no hit: the step that fails leaves the results untouched and moves on
\* to the next layer.
C4_LayerFailureIsolated ==
    [][faults' = faults + 1 =>
          /\ pc' = "layer"
          /\ lyr_idx' = lyr_idx + 1
          /\ results_report' = results_report]_vars

ResultsExcludeZeroHits(results, geom) ==
    /\ \A j \in 1..Len(results) :
          /\ results[j].count > 0
          /\ results[j].count = CountSql(results[j].table, geom)
    /\ \A l \in 1..Len(layers) :
          CountSql(layers[l].table, geom) = 0 =>
              \A j \in 1..Len(results) : results[j].table # layers[l].table

\* C5: a layer whose intersection count with the parcel is 0 has no entry in
\* the results of the ParcelReport, and every entry of the results has a count
\* above 0 (the count the store gives for its layer).
C5_ZeroHitExclusion ==
    /\ \A j \in 1..Len(all_reports) :
          IsParcelReport(all_reports[j]) =>
              ResultsExcludeZeroHits(all_reports[j].results,
                                     GeomOfLabel(all_reports[j].parcel.label))
    /\ \A j \in 1..Len(results_report) : results_report[j].count > 0

\* C5 witness: a BatchReport was written without any failed query, holding a
\* ParcelReport with results for a parcel on which a layer of the catalog has a
\* count of 0.
C5_Witness ==
    /\ pc = "done"
    /\ faults = 0
    /\ \E j \in 1..Len(out.reports) :
          /\ IsParcelReport(out.reports[j])
          /\ out.reports[j].results # << >>
          /\ \E l \in 1..Len(layers) :
                CountSql(layers[l].table, GeomOfLabel(out.reports[j].parcel.label)) = 0

\* sum of the raw percents of a coverage list (numerators over the parcel area)
RECURSIVE SumPctN(_)
SumPctN(arr) ==
    IF arr = << >> THEN 0 ELSE Head(arr).pct_of_parcel.n + SumPctN(Tail(arr))

RawCoverageWithinHundred(arr) ==
    arr # << >> =>
        LET den == arr[1].pct_of_parcel.d
        IN  /\ SumPctN(arr) - Cap * den <= den \div Unit
            /\ \A j \in 1..Len(arr) : arr[j].pct_of_parcel.n <= Cap * den

\* every result entry of the reports collected so far
AllResultsSatisfy(P(_)) ==
    \A j \in 1..Len(all_reports) :
        IsParcelReport(all_reports[j]) =>
            \A r \in 1..Len(all_reports[j].results) : P(all_reports[j].results[r])

SomeResultSatisfies(P(_)) ==
    \E j \in 1..Len(all_reports) :
        /\ IsParcelReport(all_reports[j])
        /\ \E r \in 1..Len(all_reports[j].results) : P(all_reports[j].results[r])

MatchingCommunes ==
    {j \in 1..Len(CommunesCsv) :
        /\ \/ CommunesCsv[j].LIBELLE = _normalize_string(commune)
           \/ CommunesCsv[j].NCCENR = _normalize_string(commune)
        /\ departement # "" => CommunesCsv[j].DEP = departement}

\* C7: when the commune (and departement) designate no INSEE code or more than
\* one, the run raises before any per-parcel work: no parcel geometry is
\* requested, no store query is issued, no report is collected and no
\* BatchReport is written.
C7_NoWorkWithoutInsee ==
    Cardinality(MatchingCommunes) # 1 =>
        /\ pc \in {"insee", "raised"}
        /\ pc = "raised" => error \in {"insee", "csv"}
        /\ insee = NoInsee
        /\ ~wfs_called
        /\ ~store_queried
        /\ all_reports = << >>
        /\ out = EmptyDict

\* C7 witness: the run has raised on a commune name that two communes of the CSV
\* bear, no departement given.
C7_Witness ==
    /\ pc = "raised"
    /\ error = "insee"
    /\ Cardinality(MatchingCommunes) = 2

\* C8: when enclave carving is on and detect_and_carve_enclaves fails for a
\* parcel, the parcel is processed with its raw geometry and the rest of the
\* batch is processed: the failure does not leave the run.
C8_CarveFailureFallsBack ==
    [][(pc = "geometry" /\ carve_enclaves) =>
          (pc' = "layer" /\ gj' \in {CarveInfo(feat).host_corrected_geojson_4326,
                                     feat.geometry})]_vars

\* positions in the catalog of the layers that count at least one feature on the
\* geometry geom and none of whose store queries failed for the reference at
\* position j
HitLayers(j, geom) ==
    {l \in 1..Len(layers) :
        CountSql(layers[l].table, geom) > 0 /\ << j, l >> \notin failed}

\* C11: in every ParcelReport layers_with_hits is the number of entries of
\* results, which is the number of layers of the catalog whose count on the
\* parcel is positive and whose queries all succeeded.
C11_LayersWithHits ==
    \A j \in 1..Len(all_reports) :
        IsParcelReport(all_reports[j]) =>
            /\ all_reports[j].layers_with_hits = Len(all_reports[j].results)
            /\ Len(all_reports[j].results) =
                  Cardinality(HitLayers(j, GeomOfLabel(all_reports[j].parcel.label)))

\* C11 witness: a ParcelReport was returned for a parcel on which one layer with
\* a positive count lost a query, another layer has no hit, and a third one gave
\* the only entry of results.
C11_Witness ==
    \E j \in 1..Len(all_reports) :
        /\ IsParcelReport(all_reports[j])
        /\ all_reports[j].layers_with_hits = 1
        /\ Len(all_reports[j].results) = 1
        /\ \E l \in 1..Len(layers) :
              /\ << j, l >> \in failed
              /\ CountSql(layers[l].table, GeomOfLabel(all_reports[j].parcel.label)) > 0
        /\ \E l \in 1..Len(layers) :
              CountSql(layers[l].table, GeomOfLabel(all_reports[j].parcel.label)) = 0

\* the LayerConfig of the catalog that a result entry was made from
LayerOfResult(res) ==
    layers[CHOOSE l \in 1..Len(layers) :
              layers[l].schema = res.schema /\ layers[l].table = res.table]

ExistingKeep(layer) ==
    {layer.keep[c] : c \in {x \in 1..Len(layer.keep) : InColumns(layer.keep[x], Columns(layer.table))}}

DriftedKeep(layer) ==
    {layer.keep[c] : c \in 1..Len(layer.keep)} \ ExistingKeep(layer)

\* C12: an attribute of a layer's keep list that is not a column of the table
\* gets no values query, and the result of the layer is produced all the same,
\* its values holding exactly the whitelisted attributes that are columns.
C12_SchemaDriftTolerated ==
    /\ lyr_idx <= Len(layers) =>
          /\ \A c \in 1..Len(keep_effective) : InColumns(keep_effective[c], Columns(lyr.table))
          /\ \A q \in 1..Len(qlog) :
                \A col \in DriftedKeep(lyr) : qlog[q] # "values:" \o col
    /\ \A j \in 1..Len(results_report) :
          DOMAIN results_report[j].values = ExistingKeep(LayerOfResult(results_report[j]))
    /\ LET Sampled(res) == DOMAIN res.values = ExistingKeep(LayerOfResult(res))
       IN  AllResultsSatisfy(Sampled)

\* C12 witness: a report holds the result of a layer whose keep list names a
\* column the table does not have, with the values of its two other attributes.
C12_Witness ==
    LET Drifted(res) ==
            /\ DriftedKeep(LayerOfResult(res)) = {"ghost"}
            /\ DOMAIN res.values = {"libelle", "typezone"}
            /\ res.values["libelle"] # << >>
    IN  SomeResultSatisfies(Drifted)

\* the geometry locate_parcel_feature acquired for a parcel label
AcquiredGeometry(label) == WfsFeature(insee, label[1], label[2]).geometry

\* C15: with carve_enclaves off the correction step never runs (no corrected
\* geometry, no statistics, no failure of the step), the geometry given to the
\* store queries is the acquired parcel geometry, and the parcel block of the
\* report has label and srid only.
C15_CarveOffRawGeometry ==
    ~carve_enclaves =>
        /\ error # "carve"
        /\ parcel_extra = EmptyDict
        /\ gj # NoGeom => gj = feat.geometry
        /\ \A j \in 1..Len(all_reports) :
              IsParcelReport(all_reports[j]) =>
                  /\ DOMAIN all_reports[j].parcel = {"label", "srid"}
                  /\ \A r \in 1..Len(all_reports[j].results) :
                        LET res == all_reports[j].results[r]
                            geom == AcquiredGeometry(all_reports[j].parcel.label)
                        IN  /\ res.count = CountSql(res.table, geom)
                            /\ res.parcel_area_m2 = ParcelArea(geom)

\* C15 witness: with carve_enclaves off, the report of a parcel that the
\* correction step would alter (one enclave) holds results.
C15_Witness ==
    /\ ~carve_enclaves
    /\ \E j \in 1..Len(all_reports) :
          /\ IsParcelReport(all_reports[j])
          /\ all_reports[j].results # << >>
          /\ CarveInfo(WfsFeature(insee, all_reports[j].parcel.label[1],
                                  all_reports[j].parcel.label[2])).stats.enclave_count = 1

IsPrefix(a, b) == Len(a) <= Len(b) /\ SubSeq(b, 1, Len(a)) = a

\* C16: the catalog is set once, by load_layer_map and the schema whitelist,
\* and no later step changes it, whatever the parcels and layers processed
\* (layers without hit and layers that fail included); a step on one layer
\* leaves the results already collected as they are: the results of a parcel
\* and the reports of the batch only grow at their end (the results start
\* empty again with the next parcel).
C16_CatalogAndResultsUntouched ==
    [][/\ layers' # layers =>
              /\ pc = "mapping"
              /\ layers = << >>
              /\ layers' = FilterSchemas(load_layer_map(RawMapping), SchemaWhitelist)
       /\ \/ IsPrefix(results_report, results_report')
          \/ /\ results_report' = << >>
             /\ lyr_idx' = 1
             /\ pc' \in {"locate", "layer"}
       /\ IsPrefix(all_reports, all_reports')]_vars

\* C16 witness: a batch of at least two parcels was processed to its end with a
\* failed layer on the way, the catalog still being the three layers loaded.
C16_Witness ==
    /\ pc = "done"
    /\ failed # {}
    /\ \E a, b \in 1..Len(all_reports) :
          /\ a < b
          /\ IsParcelReport(all_reports[a]) /\ IsParcelReport(all_reports[b])
          /\ Len(all_reports[a].results) < Cardinality(
                {l \in 1..Len(layers) :
                    CountSql(layers[l].table, GeomOfLabel(all_reports[a].parcel.label)) > 0})
    /\ layers = FilterSchemas(load_layer_map(RawMapping), SchemaWhitelist)
    /\ Len(layers) = 3

\* the entry that a layer gives on the geometry geom, from the store alone
ResultOf(layer, geom) ==
    LET cols == list_existing_columns(layer.schema, layer.table)
        kept == KeepEffective(layer.keep, cols)
        rows == AreaSql(layer.table, geom, IF InColumns("id", cols) THEN "id" ELSE "ROW_NUMBER")
        area == ParcelAreaOf(rows)
        CovOf(col) == CovList(CoverageSql(layer.table, geom, col), area)
        covered == {layer.coverage_by[c] : c \in 1..Len(layer.coverage_by)}
        stored == IF variant = "flat" THEN {col \in covered : CovOf(col) # << >>}
                  ELSE covered
    IN  [nom |-> layer.table,
         schema |-> layer.schema,
         table |-> layer.table,
         geom_col |-> IF variant = "flat" THEN layer.geom_col ELSE "geom_2154",
         srid |-> IF variant = "flat" THEN 4326 ELSE 2154,
         count |-> CountSql(layer.table, geom),
         values |-> [col \in {kept[c] : c \in 1..Len(kept)} |->
                        ValuesSql(layer.table, geom, col, values_limit)],
         surfaces |-> SurfacesOf(rows),
         coverage |-> [col \in stored |-> CovOf(col)],
         parcel_area_m2 |-> area]

\* the results of the reference at position j: the layers of HitLayers, in
\* catalog order, from position l on
RECURSIVE ResultsFrom(_, _, _)
ResultsFrom(j, geom, l) ==
    IF l > Len(layers) THEN << >>
    ELSE (IF l \in HitLayers(j, geom) THEN << ResultOf(layers[l], geom) >> ELSE << >>)
            \o ResultsFrom(j, geom, l + 1)

\* C17: the ParcelReport of a reference depends on that reference alone (its
\* parcel, the catalog, the store, the carve toggle and which of its own layers
\* failed): it is the same whatever references precede or follow it in the
\* batch and however those ended; nothing of another parcel's geometry, area,
\* hit count or results shows in it.
C17_PerParcelIndependence ==
    \A j \in 1..Len(all_reports) :
        IsParcelReport(all_reports[j]) =>
            LET label == << refs[j][1], refs[j][2] >>
                expected == ResultsFrom(j, GeomOfLabel(label), 1)
            IN  /\ all_reports[j].parcel.label = label
                /\ all_reports[j].results = expected
                /\ all_reports[j].layers_with_hits = Len(expected)
                /\ \A b \in 1..Len(all_reports) :
                      (/\ refs[b] = refs[j]
                       /\ \A l \in 1..Len(layers) :
                             (<< j, l >> \in failed) = (<< b, l >> \in failed))
                          => all_reports[b] = all_reports[j]

\* C17 witness: a batch of three references was processed, the first and the
\* third being the same parcel, the second another parcel with a failed layer,
\* and both reports of the repeated parcel hold results.
C17_Witness ==
    /\ pc = "done"
    /\ Len(refs) = 3
    /\ refs[1] = refs[3]
    /\ refs[2] # refs[1]
    /\ IsParcelReport(all_reports[1]) /\ IsParcelReport(all_reports[2])
    /\ all_reports[1].results # << >>
    /\ all_reports[3] = all_reports[1]
    /\ \E l \in 1..Len(layers) : << 2, l >> \in failed

\* the values, area and coverage queries (not the schema introspection, not the
\* count)
IsSubQuery(q) == q \notin {"columns", "count"}

\* in the queries issued for the current layer, a values, area or coverage
\* query comes after the count query, and the count was positive
CountCameFirst ==
    \A a \in 1..Len(qlog) :
        IsSubQuery(qlog[a]) =>
            /\ \E b \in 1..(a - 1) : qlog[b] = "count"
            /\ CountSql(lyr.table, gj) > 0

\* C19: for one parcel and one layer the count query runs before any values,
\* area or coverage query; when the count is 0 the step that reads it issues no
\* further query for the layer, adds no result and moves on to the next layer.
C19_ShortCircuitOnZeroHits ==
    [][/\ CountCameFirst'
       /\ (pc = "count" /\ CountSql(lyr.table, gj) = 0 /\ faults' = faults) =>
              /\ pc' = "layer"
              /\ lyr_idx' = lyr_idx + 1
              /\ qlog' = << >>
              /\ results_report' = results_report
              /\ hit_count' = hit_count]_vars

\* C19 witness: the layer before the current one counted no feature on the
\* parcel and was left without a failure, after a first layer gave a result.
C19_Witness ==
    /\ pc = "layer"
    /\ lyr_idx = 3
    /\ CountSql(layers[2].table, gj) = 0
    /\ << ref_idx, 2 >> \notin failed
    /\ Len(results_report) = 1
    /\ qlog = << >>

\* position in the catalog of the layer a result entry was made from
CatalogPosition(res) ==
    CHOOSE l \in 1..Len(layers) :
        layers[l].schema = res.schema /\ layers[l].table = res.table

\* the entries of a results list follow the catalog: strictly increasing positions
InCatalogOrder(results) ==
    \A a, b \in 1..Len(results) :
        a < b => CatalogPosition(results[a]) < CatalogPosition(results[b])

\* C21: parcels are processed one at a time in input order and, within a parcel,
\* layers one at a time in catalog order: the results of every ParcelReport (and
\* the results being collected) are a subsequence of the catalog, made of layers
\* already processed; the layer position moves by one, when the processing of
\* the layer has ended, or back to 1 with a new parcel; a step that issues a
\* query issues it for the current layer; the reference position moves by one,
\* with one more report.
C21_DeterministicOrdering ==
    [][/\ InCatalogOrder(results_report')
       /\ \A r \in 1..Len(results_report') :
              CatalogPosition(results_report'[r]) < lyr_idx'
       /\ \A j \in 1..Len(all_reports') :
              IsParcelReport(all_reports'[j]) => InCatalogOrder(all_reports'[j].results)
       /\ lyr_idx' # lyr_idx =>
              \/ lyr_idx' = lyr_idx + 1 /\ pc' = "layer" /\ qlog' = << >>
              \/ lyr_idx' = 1 /\ pc' \in {"layer", "locate"}
       /\ (qlog' # qlog /\ qlog' # << >>) => lyr_idx' = lyr_idx
       /\ ref_idx' # ref_idx =>
              /\ ref_idx' = ref_idx + 1
              /\ Len(all_reports') = ref_idx
              /\ all_reports'[ref_idx].parcel.label = << refs[ref_idx][1], refs[ref_idx][2] >>]_vars

\* C21 witness: a BatchReport of two parcels or more was written, one of its
\* ParcelReports holding the results of two layers that are not neighbours in
\* the catalog.
C21_Witness ==
    /\ pc = "done"
    /\ Len(refs) >= 2
    /\ \E j \in 1..Len(out.reports) :
          /\ IsParcelReport(out.reports[j])
          /\ Len(out.reports[j].results) = 2
          /\ CatalogPosition(out.reports[j].results[2]) =
                CatalogPosition(out.reports[j].results[1]) + 2

\* the table of a layer has no column "id" (id_col is never set by
\* load_layer_map: lyr.get("id_col", "id") is "id")
LacksIdColumn(table) == ~InColumns("id", Columns(table))

\* the surfaces of a table on a geometry, identified by the position of the row
\* in the answer of the store
RowPositionSurfaces(table, geom) ==
    LET rows == Intersecting(table, geom)
        positions == SelectSeq([j \in 1..Len(rows) |-> j], LAMBDA j : rows[j].inter > 0)
    IN  [k \in 1..Len(positions) |->
            [id |-> ToString(positions[k]),
             inter_area_m2 |-> rows[positions[k]].inter,
             pct_of_parcel |-> PctOfParcel(rows[positions[k]].inter, ParcelArea(geom))]]

\* C24: when the table of a layer has no column "id", the step that chooses the
\* identifier raises nothing and makes the AREA query number the rows by their
\* position; the surfaces of the layer are built from those rows, and the layer
\* is in the results of the ParcelReport with these surfaces.
C24_MissingIdColumn ==
    [][/\ (pc = "idcol" /\ LacksIdColumn(lyr.table) /\ faults' = faults) =>
              /\ pc' = "area"
              /\ id_sql' = "ROW_NUMBER"
              /\ error' = error
       /\ (pc = "area" /\ LacksIdColumn(lyr.table) /\ faults' = faults) =>
              surfaces' = RowPositionSurfaces(lyr.table, gj)
       /\ \A j \in 1..Len(all_reports') :
              IsParcelReport(all_reports'[j]) =>
                  LET geom == GeomOfLabel(all_reports'[j].parcel.label)
                  IN  \A l \in HitLayers(j, geom) :
                          LacksIdColumn(layers[l].table) =>
                              \E r \in 1..Len(all_reports'[j].results) :
                                  /\ all_reports'[j].results[r].table = layers[l].table
                                  /\ all_reports'[j].results[r].surfaces =
                                        RowPositionSurfaces(layers[l].table, geom)]_vars

\* C24 witness: a ParcelReport holds the result of a layer whose table has no
\* column "id", with one surface, identified as the second row of the answer.
C24_Witness ==
    LET Numbered(res) ==
            /\ LacksIdColumn(res.table)
            /\ Len(res.surfaces) = 1
            /\ res.surfaces[1].id = "2"
            /\ res.count = 2
    IN  SomeResultSatisfies(Numbered)

\* ------------------------------------------------------------------------
\* SpecNorm: normalize_pairs on a list, then on its own result
\* ------------------------------------------------------------------------
InitNorm ==
    /\ nphase = "input"
    /\ ninput \in {[den |-> Unit, pairs |-> s] : s \in SeqsUpTo(MaxLen, InPairs)}
    /\ nout1 = EmptyDist
    /\ nout2 = EmptyDist
    /\ variant = "INTERSECTIONS"
    /\ carve_enclaves = FALSE
    /\ commune = "Latresne"
    /\ departement = ""
    /\ RunInit("off")
    /\ MapOff
    /\ JudgeOff
    /\ AreaOff
    /\ CerfaOff
    /\ OrchOff
    /\ CacheOff
    /\ JobsOff

NormalizeOnce ==
    /\ nphase = "input"
    /\ nout1' = normalize_pairs(ninput)
    /\ nphase' = "once"
    /\ UNCHANGED << ninput, nout2, batchVars, mapVars, judgeVars, areaVars, cerfaVars, orchVars, cacheVars, jobsVars >>

NormalizeTwice ==
    /\ nphase = "once"
    /\ nout2' = normalize_pairs(nout1)
    /\ nphase' = "twice"
    /\ UNCHANGED << ninput, nout1, batchVars, mapVars, judgeVars, areaVars, cerfaVars, orchVars, cacheVars, jobsVars >>

NextNorm == NormalizeOnce \/ NormalizeTwice

SpecNorm == InitNorm /\ [][NextNorm]_vars

\* ------------------------------------------------------------------------
\* SpecMap: load_layer_map on a mapping.json
\* ------------------------------------------------------------------------
\* keys of the mapping: no dot, one dot, two dots
MapKeys == { << "bruit" >>, << "public", "bruit" >>, << "cadastre", "a", "b" >> }

Chars == {"a", " ", ","}

\* elements of a coverage_by list: a name, a name with a leading blank, ""
ListItems == { << "a" >>, << " ", "a" >>, << >> }

CoverageByInputs ==
    {JsonStr(cs) : cs \in SeqsUpTo(MaxChars, Chars)}
        \cup {JsonList(l) : l \in SeqsUpTo(MaxItems, ListItems)}

MapEntries == [fq : MapKeys, keep : {<< >>}, coverage_by : CoverageByInputs]

\* the keys of a JSON object are distinct
DistinctKeys(raw) == \A a, b \in 1..Len(raw) : raw[a].fq = raw[b].fq => a = b

\* the mapping grows one entry at a time up to MaxEntries entries; each mapping
\* met on the way is given to load_layer_map
InitMap ==
    /\ mphase = "loaded"
    /\ mraw = << >>
    /\ mlayers = load_layer_map(<< >>)
    /\ NormOff
    /\ JudgeOff
    /\ AreaOff
    /\ variant = "INTERSECTIONS"
    /\ carve_enclaves = FALSE
    /\ commune = "Latresne"
    /\ departement = ""
    /\ RunInit("off")
    /\ CerfaOff
    /\ OrchOff
    /\ CacheOff
    /\ JobsOff

LoadLayerMap ==
    /\ mphase = "loaded"
    /\ Len(mraw) < MaxEntries
    /\ \E e \in MapEntries :
          /\ DistinctKeys(Append(mraw, e))
          /\ mraw' = Append(mraw, e)
          /\ mlayers' = load_layer_map(Append(mraw, e))
    /\ UNCHANGED << mphase, batchVars, normVars, judgeVars, areaVars, cerfaVars, orchVars, cacheVars, jobsVars >>

NextMap == LoadLayerMap

SpecMap == InitMap /\ [][NextMap]_vars

\* positions in the mapping of the keys that hold a dot
WellFormedKeys == {j \in 1..Len(mraw) : Len(mraw[j].fq) > 1}

\* position in the mapping of the i-th key that holds a dot
WellFormedAt(i) ==
    CHOOSE j \in WellFormedKeys : Cardinality({x \in WellFormedKeys : x <= j}) = i

\* C13: load_layer_map drops the keys without a dot and gives exactly one
\* LayerConfig for every other key, in the order of the configuration: schema
\* is what precedes the first dot, table what follows it.
C13_MalformedKeysDropped ==
    mphase = "loaded" =>
        /\ Len(mlayers) = Cardinality(WellFormedKeys)
        /\ \A i \in 1..Len(mlayers) :
              /\ mlayers[i].schema = mraw[WellFormedAt(i)].fq[1]
              /\ mlayers[i].table \in {"bruit", "a.b"}
              /\ (mlayers[i].table = "a.b") = (Len(mraw[WellFormedAt(i)].fq) = 3)

\* C13 witness: a mapping whose first key has no dot and whose second key has
\* two was loaded, giving one LayerConfig.
C13_Witness ==
    /\ mphase = "loaded"
    /\ Len(mraw) = 2
    /\ Len(mraw[1].fq) = 1
    /\ Len(mraw[2].fq) = 3
    /\ Len(mlayers) = 1
    /\ mlayers[1].schema = "cadastre"

Trimmed(chars) == chars = << >> \/ (chars[1] # " " /\ chars[Len(chars)] # " ")

\* C14: whether coverage_by is given as one comma-delimited string or as a
\* list, the coverage_by of the LayerConfig is a list of trimmed, non-empty
\* elements.
C14_CoverageByTrimmedNonEmpty ==
    mphase = "loaded" =>
        \A i \in 1..Len(mlayers) :
            \A c \in 1..Len(mlayers[i].coverage_by) :
                /\ mlayers[i].coverage_by[c] # << >>
                /\ Trimmed(mlayers[i].coverage_by[c])

\* ------------------------------------------------------------------------
\* SpecJudge: judge_meta on CERFA metadata and an answer of the LLM
\* ------------------------------------------------------------------------
\* values of the metadata fields that judge_meta looks at
MetaInputs ==
    [commune_nom : {None, S(""), S("Latresne")},
     commune_insee : {None, S("33234"), S("3323")},
     references_cadastrales :
        {None, JsonList(<< >>), JsonList(<< [section |-> "AC", numero |-> "0496"] >>)},
     type_cu : {None, S(""), S("information")},
     siret_invalid : BOOLEAN]

\* bool(x) of a field: None, "" and [] are false
Bool(x) == x # None /\ x # S("") /\ x # JsonList(<< >>)

\* len(str(x)) of the INSEE codes above
StrLen(x) == CASE x = S("33234") -> 5 [] x = S("3323") -> 4 [] OTHER -> 4

\* texts the LLM answers with
LlmTexts ==
    {"pas du json", "{}", "[]", "null", "true",
     "{pass: true, must_rerun: false}", "{pass: true}",
     "{pass: false, must_rerun: true}", "{pass: null, must_rerun: null}"}

\* what call_gpt5_text returns: a failure, or a success with its text
LlmResults ==
    {[success |-> FALSE, error |-> "erreur"]}
        \cup {[success |-> TRUE, response |-> t] : t \in LlmTexts}

\* json.loads on the texts above
JsonLoads(t) ==
    CASE t = "{}" -> [ok |-> TRUE, kind |-> "dict", val |-> << >>]
      [] t = "[]" -> [ok |-> TRUE, kind |-> "list", val |-> << >>]
      [] t = "null" -> [ok |-> TRUE, kind |-> "null", val |-> << >>]
      [] t = "true" -> [ok |-> TRUE, kind |-> "bool", val |-> << >>]
      [] t = "{pass: true, must_rerun: false}" ->
            [ok |-> TRUE, kind |-> "dict", val |-> [pass |-> "true", must_rerun |-> "false"]]
      [] t = "{pass: true}" ->
            [ok |-> TRUE, kind |-> "dict", val |-> [pass |-> "true"]]
      [] t = "{pass: false, must_rerun: true}" ->
            [ok |-> TRUE, kind |-> "dict", val |-> [pass |-> "false", must_rerun |-> "true"]]
      [] t = "{pass: null, must_rerun: null}" ->
            [ok |-> TRUE, kind |-> "dict", val |-> [pass |-> "null", must_rerun |-> "null"]]
      [] OTHER -> [ok |-> FALSE, kind |-> "error", val |-> << >>]

\* a JSON boolean of the verdict
JsonBool(b) == IF b THEN "true" ELSE "false"

\* the value judge_meta returns: a dict, or whatever JSON value the LLM gave
Verdict(kind, val) == [kind |-> kind, val |-> val]

checks(meta) ==
    [has_commune |-> Bool(meta.commune_nom),
     has_insee |-> Bool(meta.commune_insee) /\ StrLen(meta.commune_insee) = 5,
     has_parcels |-> Bool(meta.references_cadastrales),
     has_type |-> Bool(meta.type_cu),
     siret_ok |-> ~meta.siret_invalid]

baseline_fail(meta) ==
    ~(checks(meta).has_commune /\ checks(meta).has_parcels /\ checks(meta).has_type)

\* the return of the last line of judge_meta
DefaultVerdict(meta) ==
    Verdict("dict", [pass |-> JsonBool(~baseline_fail(meta)),
                     reasons |-> << >>,
                     autofixes |-> << >>,
                     must_rerun |-> JsonBool(baseline_fail(meta))])

\* a judge that returns the answer of the LLM as it is
JudgeTrustsLlm(meta, res) ==
    IF res.success /\ JsonLoads(res.response).ok
    THEN Verdict(JsonLoads(res.response).kind, JsonLoads(res.response).val)
    ELSE DefaultVerdict(meta)

\* j["pass"] = False raises TypeError on a JSON value that is not an object; the
\* except branch then leads to the default verdict
judge_meta(meta, res) ==
    IF res.success /\ JsonLoads(res.response).ok
    THEN LET j == JsonLoads(res.response)
         IN  IF baseline_fail(meta)
             THEN IF j.kind = "dict"
                  THEN Verdict("dict",
                          [key \in DOMAIN j.val \cup {"pass", "must_rerun"} |->
                              IF key = "pass" THEN "false"
                              ELSE IF key = "must_rerun" THEN "true"
                              ELSE j.val[key]])
                  ELSE DefaultVerdict(meta)
             ELSE Verdict(j.kind, j.val)
    ELSE DefaultVerdict(meta)

InitJudge ==
    /\ jphase = "input"
    /\ jmeta \in MetaInputs
    /\ jres \in LlmResults
    /\ jverdict = << >>
    /\ NormOff
    /\ MapOff
    /\ AreaOff
    /\ variant = "INTERSECTIONS"
    /\ carve_enclaves = FALSE
    /\ commune = "Latresne"
    /\ departement = ""
    /\ RunInit("off")
    /\ CerfaOff
    /\ OrchOff
    /\ CacheOff
    /\ JobsOff

JudgeMeta ==
    /\ jphase = "input"
    /\ jverdict' = judge_meta(jmeta, jres)
    /\ jphase' = "judged"
    /\ UNCHANGED << jmeta, jres, batchVars, normVars, mapVars, areaVars, cerfaVars, orchVars, cacheVars, jobsVars >>

NextJudge == JudgeMeta

SpecJudge == InitJudge /\ [][NextJudge]_vars

Lacks(field) == field \in {None, S(""), JsonList(<< >>)}

\* C18: when the metadata lacks the commune name, the cadastral references or
\* the certificate type, the verdict of judge_meta has pass = false and
\* must_rerun = true, whatever call_gpt5_text returned (a failure, a text that
\* is not JSON, any JSON answer); when none of the three is missing and the
\* call fails, the verdict has pass = true and must_rerun = false.
C18_JudgeBaseline ==
    jphase = "judged" =>
        /\ (\/ Lacks(jmeta.commune_nom)
            \/ Lacks(jmeta.references_cadastrales)
            \/ Lacks(jmeta.type_cu)) =>
              /\ jverdict.kind = "dict"
              /\ jverdict.val.pass = "false"
              /\ jverdict.val.must_rerun = "true"
        /\ (/\ ~Lacks(jmeta.commune_nom)
            /\ ~Lacks(jmeta.references_cadastrales)
            /\ ~Lacks(jmeta.type_cu)
            /\ ~jres.success) =>
              /\ jverdict.kind = "dict"
              /\ jverdict.val.pass = "true"
              /\ jverdict.val.must_rerun = "false"

\* C18 witness: metadata without cadastral references were judged while the
\* LLM answered that the file passes.
C18_Witness ==
    /\ jphase = "judged"
    /\ jmeta.references_cadastrales = JsonList(<< >>)
    /\ jmeta.commune_nom = S("Latresne")
    /\ jres.success
    /\ jres.response = "{pass: true, must_rerun: false}"
    /\ jverdict.val.pass = "false"

\* ------------------------------------------------------------------------
\* SpecArea: the surfaces loop and the cov_list loop on the rows of the store
\* ------------------------------------------------------------------------
\* areas the store may give: NULL, 0, a positive area
InterAreas == {NoArea, 0, 250}
ParcelAreas == {NoArea, 0, 500}

\* rows of one AREA query: every row carries the same ST_Area(p.g)
AreaRowInputs ==
    UNION {SeqsUpTo(MaxRows, [id : {"1", "2"}, inter_area_m2 : InterAreas,
                              parcel_area_m2 : {a}]) : a \in ParcelAreas}

CoverageRowInputs == SeqsUpTo(1, [v : {"N"}, p : InterAreas])

InitArea ==
    /\ aphase = "rows"
    /\ arows \in AreaRowInputs
    /\ acovrows \in CoverageRowInputs
    /\ asurfaces = << >>
    /\ acov_list = << >>
    /\ NormOff
    /\ MapOff
    /\ JudgeOff
    /\ variant = "INTERSECTIONS"
    /\ carve_enclaves = FALSE
    /\ commune = "Latresne"
    /\ departement = ""
    /\ RunInit("off")
    /\ CerfaOff
    /\ OrchOff
    /\ CacheOff
    /\ JobsOff

\* the loop over the AREA rows, then the loop over the rows of a coverage query
SurfacesBuilt ==
    /\ aphase = "rows"
    /\ asurfaces' = SurfacesOf(arows)
    /\ acov_list' = CovList(acovrows, ParcelAreaOf(arows))
    /\ aphase' = "done"
    /\ UNCHANGED << arows, acovrows, batchVars, normVars, mapVars, judgeVars, cerfaVars, orchVars, cacheVars, jobsVars >>

NextArea == SurfacesBuilt

SpecArea == InitArea /\ [][NextArea]_vars

\* positions of the AREA rows whose intersection area is strictly positive
PositiveRows == {j \in 1..Len(arows) : arows[j].inter_area_m2 > 0}

PositiveRowAt(i) ==
    CHOOSE j \in PositiveRows : Cardinality({x \in PositiveRows : x <= j}) = i

\* C20: surfaces holds exactly the rows whose intersection area is strictly
\* positive (a null or zero area is left out), in their order, each with
\* pct_of_parcel = intersection area / parcel area * 100 when the parcel area
\* is positive and null when it is zero or unavailable; no percent is a
\* division by zero, in surfaces or in a coverage list.
C20_SurfacesPercentOfParcel ==
    aphase = "done" =>
        /\ Len(asurfaces) = Cardinality(PositiveRows)
        /\ \A i \in 1..Len(asurfaces) :
              LET row == arows[PositiveRowAt(i)]
              IN  /\ asurfaces[i].id = row.id
                  /\ asurfaces[i].inter_area_m2 = row.inter_area_m2
                  /\ asurfaces[i].pct_of_parcel =
                        IF row.parcel_area_m2 > 0
                        THEN [n |-> row.inter_area_m2 * 100, d |-> row.parcel_area_m2]
                        ELSE NonePct
        /\ \A i \in 1..Len(acov_list) :
              /\ acov_list[i].pct_of_parcel.d > 0
              /\ acov_list[i].inter_area_m2 > 0

\* C20 witness: two rows with a positive intersection area were kept without a
\* percent, the parcel area being 0, next to a coverage row that was left out.
C20_Witness ==
    /\ aphase = "done"
    /\ Len(arows) = 2
    /\ arows[1].parcel_area_m2 = 0
    /\ Len(asurfaces) = 2
    /\ asurfaces[1].pct_of_parcel = NonePct
    /\ acovrows # << >>
    /\ acovrows[1].p > 0
    /\ acov_list = << >>

\* ------------------------------------------------------------------------
\* SpecCerfa: run() of cerfa_gemini_pipeline, the validation loop
\* ------------------------------------------------------------------------
\* highest --max-judge-retries explored (2 is the default)
MaxJudgeRetries == 2

\* max_retries = 5: model calls of one extraction attempt
max_retries == 5

\* final = None
NoFinal == << >>
\* text = None
NoText == [kind |-> "none", data |-> << >>]
\* no exception of generate_content
NoError == << >>
\* out_json not written
NotWritten == [written |-> FALSE]

\* metadata objects the model answers with
GeminiMetas ==
    {m \in MetaInputs :
        /\ ~m.siret_invalid
        /\ m.commune_nom # S("")
        /\ m.commune_insee # S("33234")
        /\ m.references_cadastrales # None
        /\ m.type_cu # S("")}

\* response.text or "": nothing, prose, an empty JSON object, a JSON object
GeminiTexts ==
    {[kind |-> k, data |-> << >>] : k \in {"empty", "prose", "empty_object"}}
        \cup {[kind |-> "object", data |-> m] : m \in GeminiMetas}

\* messages of the exceptions of generate_content, as their words
GeminiErrors ==
    { << "503", "UNAVAILABLE" >>, << "The", "model", "is", "Overloaded" >>,
      << "429", "RESOURCE_EXHAUSTED" >>, << "timeout" >> }

\* str.lower() on the words above
Lower(w) == IF w = "Overloaded" THEN "overloaded" ELSE w

\* "503" in err_msg or "UNAVAILABLE" in err_msg or "overloaded" in err_msg.lower()
Transient(err_msg) ==
    \E w \in 1..Len(err_msg) :
        \/ err_msg[w] = "503"
        \/ err_msg[w] = "UNAVAILABLE"
        \/ Lower(err_msg[w]) = "overloaded"

\* the JSON object between the first "{" and the last "}", None without one
_extract_json(t) ==
    CASE t.kind = "object" -> [found |-> TRUE, obj |-> t.data]
      [] t.kind = "empty_object" -> [found |-> TRUE, obj |-> << >>]
      [] OTHER -> [found |-> FALSE, obj |-> << >>]

\* "not parsed": None or {}
NotParsed(parsed) == ~parsed.found \/ parsed.obj = << >>

\* get_insee_from_csv of the pipeline on the communes CSV
CsvInsee(commune_nom) == IF commune_nom = S("Latresne") THEN S("33234") ELSE None

\* sanitize_and_enrich: commune_insee is what the CSV gives, or None
sanitize_and_enrich(fin) ==
    IF ~fin.success \/ fin.data = << >> THEN fin
    ELSE [fin EXCEPT !.data = [@ EXCEPT !.commune_insee = CsvInsee(fin.data.commune_nom)]]

HasField(rec, key) == rec # << >> /\ key \in DOMAIN rec

\* judge_result.get(key, False) as a JSON value
VerdictGet(verdict, key) ==
    IF HasField(verdict.val, key) THEN verdict.val[key] ELSE "false"

\* truth value of a JSON value of the verdict (null is false)
IsTrue(json) == json = "true"

\* the failure returned from the except branch of the model call
GeminiCallFailure(err_msg) ==
    [success |-> FALSE, error |-> err_msg, stage |-> "gemini_call"]

\* the limit tested one attempt too far
AttemptsRemainOneMore(done, retries) == done <= retries + 1

\* "judge_attempt <= max_judge_retries" of the while test; the judge branch
\* tests its negation, "judge_attempt > max_judge_retries"
AttemptsRemain(done, retries) == done <= retries

\* after the loop: judge_validation when verdicts were recorded, out_json, return
Finish(fin, results) ==
    LET validated ==
            IF judge /\ results # << >> /\ ~HasField(fin, "judge_validation")
            THEN fin @@ [judge_validation |->
                            [final_pass |-> VerdictGet(results[Len(results)], "pass"),
                             attempts |-> results,
                             total_attempts |-> Len(results)]]
            ELSE fin
    IN  /\ final' = validated
        /\ out_json' = [written |-> TRUE, content |-> validated]
        /\ cpc' = "returned"

InitCerfa ==
    /\ cpc = "start"
    /\ judge \in BOOLEAN
    /\ max_judge_retries \in -1..MaxJudgeRetries
    /\ judge_attempt = 0
    /\ attempt = 0
    /\ text = NoText
    /\ final = NoFinal
    /\ judge_results = << >>
    /\ out_json = NotWritten
    /\ calls = 0
    /\ last_error = NoError
    /\ variant = "INTERSECTIONS"
    /\ carve_enclaves = FALSE
    /\ commune = "Latresne"
    /\ departement = ""
    /\ RunInit("off")
    /\ NormOff
    /\ MapOff
    /\ JudgeOff
    /\ AreaOff
    /\ OrchOff
    /\ CacheOff
    /\ JobsOff

\* out_dir, API key, PDF, master prompt: all there
Prepared ==
    /\ cpc = "start"
    /\ cpc' = "loop"
    /\ UNCHANGED << judge, max_judge_retries, judge_attempt, attempt, text, final,
                    judge_results, out_json, calls, last_error,
                    batchVars, normVars, mapVars, judgeVars, areaVars, orchVars, cacheVars, jobsVars >>

\* GEMINI_API_KEY not set, PDF unreadable: the exception leaves run
PrepareRaises ==
    /\ cpc = "start"
    /\ cpc' = "raised"
    /\ UNCHANGED << judge, max_judge_retries, judge_attempt, attempt, text, final,
                    judge_results, out_json, calls, last_error,
                    batchVars, normVars, mapVars, judgeVars, areaVars, orchVars, cacheVars, jobsVars >>

\* while judge_attempt <= max_judge_retries: judge_attempt += 1
LoopEnter ==
    /\ cpc = "loop"
    /\ AttemptsRemain(judge_attempt, max_judge_retries)
    /\ judge_attempt' = judge_attempt + 1
    /\ attempt' = 1
    /\ text' = NoText
    /\ calls' = 0
    /\ last_error' = NoError
    /\ cpc' = "call"
    /\ UNCHANGED << judge, max_judge_retries, final, judge_results, out_json,
                    batchVars, normVars, mapVars, judgeVars, areaVars, orchVars, cacheVars, jobsVars >>

\* the while test fails
LoopExit ==
    /\ cpc = "loop"
    /\ ~AttemptsRemain(judge_attempt, max_judge_retries)
    /\ Finish(final, judge_results)
    /\ UNCHANGED << judge, max_judge_retries, judge_attempt, attempt, text,
                    judge_results, calls, last_error,
                    batchVars, normVars, mapVars, judgeVars, areaVars, orchVars, cacheVars, jobsVars >>

\* generate_content answers: text = response.text or "", break
CallAnswers ==
    /\ cpc = "call"
    /\ \E t \in GeminiTexts : text' = t
    /\ calls' = calls + 1
    /\ last_error' = NoError
    /\ cpc' = "parse"
    /\ UNCHANGED << judge, max_judge_retries, judge_attempt, attempt, final,
                    judge_results, out_json,
                    batchVars, normVars, mapVars, judgeVars, areaVars, orchVars, cacheVars, jobsVars >>

\* an except branch that retries after any error while calls remain
CallFailsRetriesAnyError ==
    /\ cpc = "call"
    /\ \E err_msg \in GeminiErrors :
          /\ last_error' = err_msg
          /\ IF attempt < max_retries
             THEN /\ attempt' = attempt + 1
                  /\ cpc' = "call"
                  /\ UNCHANGED << final, out_json >>
             ELSE /\ final' = GeminiCallFailure(err_msg)
                  /\ out_json' = [written |-> TRUE, content |-> GeminiCallFailure(err_msg)]
                  /\ cpc' = "returned"
                  /\ attempt' = attempt
    /\ calls' = calls + 1
    /\ UNCHANGED << judge, max_judge_retries, judge_attempt, text, judge_results,
                    batchVars, normVars, mapVars, judgeVars, areaVars, orchVars, cacheVars, jobsVars >>

\* generate_content raises: sleep and continue on a transient error while
\* attempt < max_retries, else write and return the failure
CallFails ==
    /\ cpc = "call"
    /\ \E err_msg \in GeminiErrors :
          /\ last_error' = err_msg
          /\ IF attempt < max_retries /\ Transient(err_msg)
             THEN /\ attempt' = attempt + 1
                  /\ cpc' = "call"
                  /\ UNCHANGED << final, out_json >>
             ELSE /\ final' = GeminiCallFailure(err_msg)
                  /\ out_json' = [written |-> TRUE, content |-> GeminiCallFailure(err_msg)]
                  /\ cpc' = "returned"
                  /\ attempt' = attempt
    /\ calls' = calls + 1
    /\ UNCHANGED << judge, max_judge_retries, judge_attempt, text, judge_results,
                    batchVars, normVars, mapVars, judgeVars, areaVars, orchVars, cacheVars, jobsVars >>

\* _extract_json, sanitize_and_enrich and the test that leads to the judge
Parsed ==
    /\ cpc = "parse"
    /\ LET parsed == _extract_json(text)
           fin == sanitize_and_enrich([success |-> TRUE, data |-> parsed.obj])
       IN  IF NotParsed(parsed)
           THEN Finish([success |-> FALSE, error |-> "json_parse_error", raw |-> text],
                       judge_results)
           ELSE IF judge /\ fin.success /\ fin.data # << >>
                THEN /\ final' = fin
                     /\ cpc' = "judge"
                     /\ out_json' = out_json
                ELSE Finish(fin, judge_results)
    /\ UNCHANGED << judge, max_judge_retries, judge_attempt, attempt, text,
                    judge_results, calls, last_error,
                    batchVars, normVars, mapVars, judgeVars, areaVars, orchVars, cacheVars, jobsVars >>

\* a judge branch that starts over after any failing verdict while attempts remain
JudgedRerunsAnyFailure ==
    /\ cpc = "judge"
    /\ \E res \in LlmResults :
          LET judge_result == judge_meta(final.data, res)
              results == Append(judge_results, judge_result)
          IN  /\ judge_results' = results
              /\ IF judge_result.kind # "dict"
                 THEN /\ cpc' = "raised"
                      /\ UNCHANGED << final, out_json >>
                 ELSE IF IsTrue(VerdictGet(judge_result, "pass"))
                 THEN Finish(final, results)
                 ELSE IF ~AttemptsRemain(judge_attempt, max_judge_retries)
                 THEN Finish(final @@ [judge_validation |->
                                          [final_pass |-> "false",
                                           attempts |-> results,
                                           final_reasons |-> << >>]], results)
                 ELSE /\ cpc' = "loop"
                      /\ UNCHANGED << final, out_json >>
    /\ UNCHANGED << judge, max_judge_retries, judge_attempt, attempt, text, calls, last_error,
                    batchVars, normVars, mapVars, judgeVars, areaVars, orchVars, cacheVars, jobsVars >>

\* judge_meta(final["data"]), the verdict recorded, and the three ways on: break
\* on pass, the definitive failure, or a new extraction.  A verdict that is not
\* a JSON object has no .get: AttributeError leaves run.  (The answers of
\* LlmTexts carry no autofixes.)
Judged ==
    /\ cpc = "judge"
    /\ \E res \in LlmResults :
          LET judge_result == judge_meta(final.data, res)
              results == Append(judge_results, judge_result)
          IN  /\ judge_results' = results
              /\ IF judge_result.kind # "dict"
                 THEN /\ cpc' = "raised"
                      /\ UNCHANGED << final, out_json >>
                 ELSE IF IsTrue(VerdictGet(judge_result, "pass"))
                 THEN Finish(final, results)
                 ELSE IF \/ ~AttemptsRemain(judge_attempt, max_judge_retries)
                         \/ ~IsTrue(VerdictGet(judge_result, "must_rerun"))
                 THEN Finish(final @@ [judge_validation |->
                                          [final_pass |-> "false",
                                           attempts |-> results,
                                           final_reasons |-> << >>]], results)
                 ELSE /\ cpc' = "loop"
                      /\ UNCHANGED << final, out_json >>
    /\ UNCHANGED << judge, max_judge_retries, judge_attempt, attempt, text, calls, last_error,
                    batchVars, normVars, mapVars, judgeVars, areaVars, orchVars, cacheVars, jobsVars >>

NextCerfa ==
    \/ Prepared \/ PrepareRaises
    \/ LoopEnter \/ LoopExit
    \/ CallAnswers \/ CallFails
    \/ Parsed
    \/ Judged

SpecCerfa == InitCerfa /\ [][NextCerfa]_vars

\* run() is one sequential call: a step that can be taken is taken
SpecCerfaFair == SpecCerfa /\ WF_vars(NextCerfa)

\* run has returned, or an exception has left it
RunEnded == cpc \in {"returned", "raised"}

\* C25: with judging on or off and for every sequence of judge verdicts, run
\* starts at most max_judge_retries + 1 extraction attempts, records at most
\* one verdict per attempt, and ends.
C25_ValidationLoopTerminates ==
    /\ [](/\ judge_attempt <= max_judge_retries + 1
          /\ Len(judge_results) <= judge_attempt)
    /\ <>RunEnded

\* C25 witness: with judging on and max_judge_retries = 2, run returned after
\* three extraction attempts and three verdicts.
C25_Witness ==
    /\ cpc = "returned"
    /\ judge
    /\ max_judge_retries = 2
    /\ judge_attempt = 3
    /\ Len(judge_results) = 3

\* the last verdict recorded so far
LastVerdict(results) == results[Len(results)]

Passes(verdict) == verdict.kind = "dict" /\ IsTrue(VerdictGet(verdict, "pass"))

AsksRerun(verdict) == verdict.kind = "dict" /\ IsTrue(VerdictGet(verdict, "must_rerun"))

\* C26: an extraction attempt after the first starts only when the attempt
\* before got a verdict that does not pass and asks for a rerun, and attempts
\* remain; the step that records a passing verdict returns, the step that
\* records a failing verdict without must_rerun returns; a returned result with
\* a judge_validation has final_pass true exactly when the last verdict passes.
C26_RerunOnlyOnFailingMustRerun ==
    [][/\ (judge_attempt' = judge_attempt + 1 /\ judge_attempt >= 1) =>
              /\ Len(judge_results) = judge_attempt
              /\ ~Passes(LastVerdict(judge_results))
              /\ AsksRerun(LastVerdict(judge_results))
              /\ judge_attempt <= max_judge_retries
       /\ (Len(judge_results') = Len(judge_results) + 1
              /\ LastVerdict(judge_results').kind = "dict"
              /\ \/ Passes(LastVerdict(judge_results'))
                 \/ ~AsksRerun(LastVerdict(judge_results'))) =>
              /\ cpc' = "returned"
              /\ judge_attempt' = judge_attempt
       /\ (cpc' = "returned" /\ HasField(final', "judge_validation")) =>
              /\ final'.judge_validation.attempts = judge_results'
              /\ IsTrue(final'.judge_validation.final_pass)
                    <=> Passes(LastVerdict(judge_results'))]_vars

\* C26 witness: run returned a result that passed at the second attempt, the
\* first verdict having failed with must_rerun.
C26_Witness ==
    /\ cpc = "returned"
    /\ Len(judge_results) = 2
    /\ ~Passes(judge_results[1]) /\ AsksRerun(judge_results[1])
    /\ Passes(judge_results[2])
    /\ IsTrue(final.judge_validation.final_pass)
    /\ judge_attempt = 2
    /\ max_judge_retries = 2

\* C27: in one extraction attempt the model is called at most max_retries (5)
\* times; a call after the first is made only when the call before failed with
\* a transient error and fewer than 5 calls were made; the step in which a call
\* fails with another error, or fails for the 5th time, returns the failure
\* (success false, stage gemini_call), written to out_json, without a verdict
\* and without a new extraction attempt.
C27_TechnicalRetries ==
    [][/\ calls' <= max_retries
       /\ (calls' = calls + 1 /\ calls >= 1) =>
              /\ last_error # NoError
              /\ Transient(last_error)
              /\ calls < max_retries
       /\ (calls' = calls + 1 /\ last_error' # NoError
              /\ (~Transient(last_error') \/ calls' = max_retries)) =>
              /\ cpc' = "returned"
              /\ final' = [success |-> FALSE, error |-> last_error', stage |-> "gemini_call"]
              /\ out_json' = [written |-> TRUE, content |-> final']
              /\ judge_results' = judge_results
              /\ judge_attempt' = judge_attempt]_vars

\* C27 witness: the fifth call of the second extraction attempt failed with a
\* transient error and run returned the failure; a verdict was recorded for the
\* first attempt and none after.
C27_Witness ==
    /\ cpc = "returned"
    /\ judge_attempt = 2
    /\ calls = max_retries
    /\ Transient(last_error)
    /\ final = [success |-> FALSE, error |-> last_error, stage |-> "gemini_call"]
    /\ Len(judge_results) = 1

\* ------------------------------------------------------------------------
\* SpecOrch: run_full_pipeline and run_parcel_pipeline of cua_orchestrator
\* ------------------------------------------------------------------------
\* most recipients of a notification
MaxRecipients == 2

Recipients == [j \in 1..MaxRecipients |-> "agent" \o ToString(j) \o "@mairie.fr"]

\* the steps inside the try block, in order
PipelineSteps(kind) ==
    IF kind = "full" THEN << "cerfa", "inters", "docx", "map" >>
    ELSE << "inters", "docx", "map" >>

\* the step that follows a step of the try block ("upload" after the last)
StepAfter(kind, step) ==
    LET steps == PipelineSteps(kind)
        at == CHOOSE j \in 1..Len(steps) : steps[j] = step
    IN  IF at = Len(steps) THEN "upload" ELSE steps[at + 1]

otherOrch == << batchVars, normVars, mapVars, judgeVars, areaVars, cerfaVars, cacheVars, jobsVars >>

InitOrch ==
    /\ opc = "mkdir"
    /\ pipeline \in {"full", "parcel"}
    /\ notify_emails \in {SubSeq(Recipients, 1, k) : k \in 0..MaxRecipients}
    /\ map_built = FALSE
    /\ report_url = None
    /\ map_url = None
    /\ job_id = None
    /\ result = << >>
    /\ cua_jobs = << >>
    /\ sent = 0
    /\ failed_step = ""
    /\ soft_failures = {}
    /\ variant = "INTERSECTIONS"
    /\ carve_enclaves = FALSE
    /\ commune = "Latresne"
    /\ departement = ""
    /\ RunInit("off")
    /\ NormOff
    /\ MapOff
    /\ JudgeOff
    /\ AreaOff
    /\ CerfaOff
    /\ CacheOff
    /\ JobsOff

\* temp_dir.mkdir(parents=True, exist_ok=True)
DirCreated ==
    /\ opc = "mkdir"
    /\ opc' = PipelineSteps(pipeline)[1]
    /\ UNCHANGED << pipeline, notify_emails, map_built, report_url, map_url, job_id, result,
                    cua_jobs, sent, failed_step, soft_failures, otherOrch >>

\* mkdir raises, before the try block: the exception leaves the pipeline
DirFails ==
    /\ opc = "mkdir"
    /\ opc' = "escaped"
    /\ failed_step' = "mkdir"
    /\ UNCHANGED << pipeline, notify_emails, map_built, report_url, map_url, job_id, result,
                    cua_jobs, sent, soft_failures, otherOrch >>

\* a step whose exception is not caught
StepRaisesEscapes ==
    /\ opc \in {"cerfa", "inters", "docx", "map"}
    /\ failed_step' = opc
    /\ opc' = "escaped"
    /\ UNCHANGED << pipeline, notify_emails, map_built, report_url, map_url, job_id, result,
                    cua_jobs, sent, soft_failures, otherOrch >>

\* a step of the try block raises (the ValueError on insufficient CERFA fields
\* included): except Exception returns {success: False, error}
StepRaises ==
    /\ opc \in {"cerfa", "inters", "docx", "map"}
    /\ failed_step' = opc
    /\ result' = [success |-> FALSE, error |-> opc]
    /\ opc' = "returned"
    /\ UNCHANGED << pipeline, notify_emails, map_built, report_url, map_url, job_id,
                    cua_jobs, sent, soft_failures, otherOrch >>

\* run_cerfa_gemini, run_intersections, build_cua_docx return
StepDone ==
    /\ opc \in {"cerfa", "inters", "docx"}
    /\ opc' = StepAfter(pipeline, opc)
    /\ UNCHANGED << pipeline, notify_emails, map_built, report_url, map_url, job_id, result,
                    cua_jobs, sent, failed_step, soft_failures, otherOrch >>

\* build_map_html_bbox returns
MapBuilt ==
    /\ opc = "map"
    /\ map_built' = TRUE
    /\ opc' = StepAfter(pipeline, opc)
    /\ UNCHANGED << pipeline, notify_emails, report_url, map_url, job_id, result,
                    cua_jobs, sent, failed_step, soft_failures, otherOrch >>

\* no references or no engine: no map
MapSkipped ==
    /\ opc = "map"
    /\ opc' = StepAfter(pipeline, opc)
    /\ UNCHANGED << pipeline, notify_emails, map_built, report_url, map_url, job_id, result,
                    cua_jobs, sent, failed_step, soft_failures, otherOrch >>

\* _upload_or_none(docx_path), _upload_or_none(map_path): a URL, or None when
\* upload_artifact raises or returns None (no client, no file)
Uploaded ==
    /\ opc = "upload"
    /\ \E docx_ok \in BOOLEAN, map_ok \in {b \in BOOLEAN : b => map_built} :
          /\ report_url' = IF docx_ok THEN S("jobs/uuid/CUA_final.docx") ELSE None
          /\ map_url' = IF map_ok THEN S("jobs/uuid/map.html") ELSE None
          /\ soft_failures' = soft_failures
                \cup (IF docx_ok THEN {} ELSE {"upload_docx"})
                \cup (IF map_ok THEN {} ELSE {"upload_map"})
    /\ opc' = "db"
    /\ UNCHANGED << pipeline, notify_emails, map_built, job_id, result,
                    cua_jobs, sent, failed_step, otherOrch >>

\* the success result built after step "DB"
SuccessResult(id) ==
    [success |-> TRUE,
     job_id |-> id,
     report_docx_url |-> report_url,
     map_html_url |-> map_url,
     result_json |-> "inters"]

\* INSERT INTO public.cua_jobs ... RETURNING id
JobInserted ==
    /\ opc = "db"
    /\ cua_jobs' = Append(cua_jobs, [status |-> "success", report_docx_path |-> report_url,
                                     map_html_path |-> map_url, result_json |-> "inters"])
    /\ job_id' = S("id")
    /\ result' = SuccessResult(S("id"))
    /\ opc' = "notify"
    /\ UNCHANGED << pipeline, notify_emails, map_built, report_url, map_url,
                    sent, failed_step, soft_failures, otherOrch >>

\* an insert whose exception reaches the outer except
JobInsertFailsAborts ==
    /\ opc = "db"
    /\ soft_failures' = soft_failures \cup {"insert"}
    /\ result' = [success |-> FALSE, error |-> "db"]
    /\ opc' = "returned"
    /\ UNCHANGED << pipeline, notify_emails, map_built, report_url, map_url, job_id,
                    cua_jobs, sent, failed_step, otherOrch >>

\* the insert raises: logged, job_id stays None
JobInsertFails ==
    /\ opc = "db"
    /\ soft_failures' = soft_failures \cup {"insert"}
    /\ result' = SuccessResult(None)
    /\ opc' = "notify"
    /\ UNCHANGED << pipeline, notify_emails, map_built, report_url, map_url, job_id,
                    cua_jobs, sent, failed_step, otherOrch >>

\* _get_db_engine() returns None: no write
NoEngine ==
    /\ opc = "db"
    /\ result' = SuccessResult(None)
    /\ opc' = "notify"
    /\ UNCHANGED << pipeline, notify_emails, map_built, report_url, map_url, job_id,
                    cua_jobs, sent, failed_step, soft_failures, otherOrch >>

\* _maybe_send_notification with recipients and a success result, then return
Notified ==
    /\ opc = "notify"
    /\ notify_emails # << >> /\ result.success
    /\ \E outcome \in {"sent", "not_sent", "error"} :
          /\ sent' = IF outcome = "sent" THEN sent + 1 ELSE sent
          /\ result' = IF outcome = "error"
                       THEN result @@ [email_error |-> "erreur"]
                       ELSE result @@ [email_sent |-> outcome = "sent",
                                       email_recipients |-> notify_emails]
    /\ opc' = "returned"
    /\ UNCHANGED << pipeline, notify_emails, map_built, report_url, map_url, job_id,
                    cua_jobs, failed_step, soft_failures, otherOrch >>

\* _maybe_send_notification returns at once, then return
NotNotified ==
    /\ opc = "notify"
    /\ ~(notify_emails # << >> /\ result.success)
    /\ opc' = "returned"
    /\ UNCHANGED << pipeline, notify_emails, map_built, report_url, map_url, job_id, result,
                    cua_jobs, sent, failed_step, soft_failures, otherOrch >>

NextOrch ==
    \/ DirCreated \/ DirFails
    \/ StepRaises \/ StepDone
    \/ MapBuilt \/ MapSkipped
    \/ Uploaded
    \/ JobInserted \/ JobInsertFails \/ NoEngine
    \/ Notified \/ NotNotified

SpecOrch == InitOrch /\ [][NextOrch]_vars

\* C28: in both pipelines an exception of a step made after the working
\* directory is created (extraction, intersections, DOCX, map) does not leave
\* the pipeline: it returns {success: False, error} with no job row written and
\* no mail sent; a mail is sent only with recipients and a success result; when
\* no step raised the result has success = True, also when an upload failed
\* (its URL is then null) or the insert failed (job_id is then null, no row).
C28_PipelineFailureContained ==
    /\ opc = "escaped" => failed_step = "mkdir"
    /\ failed_step \in {"cerfa", "inters", "docx", "map"} =>
          /\ opc = "returned"
          /\ result = [success |-> FALSE, error |-> failed_step]
          /\ cua_jobs = << >>
          /\ sent = 0
    /\ sent > 0 =>
          /\ result # << >>
          /\ result.success
          /\ notify_emails # << >>
    /\ (opc \in {"notify", "returned"} /\ failed_step = "") =>
          /\ result.success
          /\ "upload_docx" \in soft_failures <=> result.report_docx_url = None
          /\ "upload_map" \in soft_failures <=> result.map_html_url = None
          /\ "insert" \in soft_failures => (result.job_id = None /\ cua_jobs = << >>)
          /\ cua_jobs # << >> <=> result.job_id # None

\* C28 witness: the parcel pipeline returned a success result, the notification
\* sent, after the upload of the DOCX and the insert both failed.
C28_Witness ==
    /\ opc = "returned"
    /\ pipeline = "parcel"
    /\ result.success
    /\ sent = 1
    /\ {"upload_docx", "insert"} \subseteq soft_failures
    /\ result.report_docx_url = None
    /\ result.job_id = None

\* ------------------------------------------------------------------------
\* SpecCache: the module-level load of _LAYER_MAPPING, then mapping_for
\* ------------------------------------------------------------------------
\* most entries of mapping_layers.json
MaxConfigEntries == 3

\* keys of mapping_layers.json: "table" or "schema.table"
ConfigKeys ==
    { << "bruit" >>, << "public", "bruit" >>, << "cadastre", "bruit" >>,
      << "public", "zonage" >> }

\* entries of mapping_layers.json, told apart by their name
ConfigEntries == [fq : ConfigKeys, name : {"A", "B", "C"}]

\* layers of an intersections report
ReportLayers == [schema : {"", "public", "cadastre"}, table : {"", "bruit", "zonage"}]

otherCache == << batchVars, normVars, mapVars, judgeVars, areaVars, cerfaVars, orchVars, jobsVars >>

InitCache ==
    /\ cphase = "loaded"
    /\ craw = << >>
    /\ ccache = << >>
    /\ clayer = << >>
    /\ cfound = << >>
    /\ variant = "INTERSECTIONS"
    /\ carve_enclaves = FALSE
    /\ commune = "Latresne"
    /\ departement = ""
    /\ RunInit("off")
    /\ NormOff
    /\ MapOff
    /\ JudgeOff
    /\ AreaOff
    /\ CerfaOff
    /\ OrchOff
    /\ JobsOff

\* the module is loaded on a mapping_layers.json with one more entry (a JSON
\* object: its keys are distinct)
MappingLoaded ==
    /\ cphase = "loaded"
    /\ Len(craw) < MaxConfigEntries
    /\ \E e \in ConfigEntries :
          /\ \A j \in 1..Len(craw) : craw[j].fq # e.fq
          /\ (craw # << >> => craw[Len(craw)].name # e.name)
          /\ craw' = Append(craw, e)
          /\ ccache' = LoadLayerMapping(Append(craw, e))
    /\ UNCHANGED << cphase, clayer, cfound, otherCache >>

\* mapping_for(layer)
Resolved ==
    /\ cphase = "loaded"
    /\ \E layer \in ReportLayers :
          /\ clayer' = layer
          /\ cfound' = MappingFor(ccache, layer)
    /\ cphase' = "resolved"
    /\ UNCHANGED << craw, ccache, otherCache >>

NextCache == MappingLoaded \/ Resolved

SpecCache == InitCache /\ [][NextCache]_vars

\* the entry the configuration gives for a key (EmptyDict: the key is not in it)
ConfigEntry(raw, key) ==
    IF \E j \in 1..Len(raw) : raw[j].fq = key
    THEN raw[CHOOSE j \in 1..Len(raw) : raw[j].fq = key]
    ELSE EmptyDict

\* C29: after the module-level load every key of mapping_layers.json maps to its
\* own entry (a derived key "table" or "public.table" never replaces a key of
\* the configuration), so that mapping_for gives a layer the configuration
\* entry of "schema.table" when there is one, else that of "public.table",
\* else that of "table".
C29_ExactKeysKeepTheirEntry ==
    /\ \A j \in 1..Len(craw) :
          /\ HasKey(ccache, craw[j].fq)
          /\ ccache[DictGet(ccache, craw[j].fq)].v = craw[j]
    /\ cphase = "resolved" =>
          LET exact == ConfigEntry(craw, << clayer.schema, clayer.table >>)
              public == ConfigEntry(craw, << "public", clayer.table >>)
              bare == ConfigEntry(craw, << clayer.table >>)
          IN  (clayer.schema # "" /\ clayer.table # "") =>
                  /\ exact # EmptyDict => cfound = exact
                  /\ (exact = EmptyDict /\ public # EmptyDict) => cfound = public
                  /\ (exact = EmptyDict /\ public = EmptyDict /\ bare # EmptyDict) =>
                        cfound = bare

\* ------------------------------------------------------------------------
\* SpecJobs: requests to /cua and /cua/direct, and their background jobs
\* ------------------------------------------------------------------------
\* most requests accepted
MaxJobs == 2

\* file names a client sends with its PDF (UploadFile.filename is the text of
\* the request): plain names, a name with a parent component, an absolute name
UploadNames ==
    { << "cerfa.pdf" >>, << "demande.pdf" >>, << "..", "cerfa.pdf" >>,
      << "/", "srv", "cerfa.pdf" >> }

\* pathlib's base / rel: an absolute right-hand side replaces the base
PathJoin(base, rel) ==
    IF rel # << >> /\ rel[1] = "/" THEN rel ELSE base \o rel

\* the file a path names, once the system has followed its ".." components
RECURSIVE Followed(_, _)
Followed(acc, p) ==
    IF p = << >> THEN acc
    ELSE Followed(IF p[1] = ".."
                  THEN IF acc # << >> /\ acc[Len(acc)] # "/"
                       THEN SubSeq(acc, 1, Len(acc) - 1)
                       ELSE acc
                  ELSE Append(acc, p[1]),
                  Tail(p))

\* one write: the job it belongs to, what the file is, the file it lands on
Wrote(j, kind, path) == [job |-> j, kind |-> kind, path |-> Followed(<< >>, path)]

\* Path("temp") / str(uuid.uuid4()): uuid4 values are taken to be all distinct
TempDir(seq) == << "temp", "uuid" \o ToString(seq) >>

\* tempfile.mkstemp(prefix="cerfa_reduced_", suffix=".pdf"): a name not in use
ReducedPdf(seq) == << "/", "tmp", "cerfa_reduced_" \o ToString(seq) \o ".pdf" >>

\* what run_cerfa_gemini and the lines after it write, with nv judge verdicts
ExtractionFiles(j, nv) ==
    LET dir == jobs[j].temp_dir IN
    { Wrote(j, "reduced_pdf", ReducedPdf(mkstemps + 1)),
      Wrote(j, "prompt", Append(dir, "master_prompt.txt")),
      Wrote(j, "cerfa_json", Append(dir, "cerfa_gemini.json")),
      Wrote(j, "cerfa_json", Append(dir, "cerfa_gemini_result.pretty.json")) }
    \cup { Wrote(j, "verdict",
                 Append(dir, "judge_result_attempt_" \o ToString(k) \o ".json")) :
           k \in 1..nv }

otherJobs ==
    << batchVars, normVars, mapVars, judgeVars, areaVars, cerfaVars, orchVars, cacheVars >>

InitJobs ==
    /\ jobs = << >>
    /\ files = {}
    /\ uuids = 0
    /\ mkstemps = 0
    /\ variant = "INTERSECTIONS"
    /\ carve_enclaves = FALSE
    /\ commune = "Latresne"
    /\ departement = ""
    /\ RunInit("off")
    /\ NormOff
    /\ MapOff
    /\ JudgeOff
    /\ AreaOff
    /\ CerfaOff
    /\ OrchOff
    /\ CacheOff

\* POST /cua: the directory is made, the PDF saved, the background task added
process_cua ==
    /\ Len(jobs) < MaxJobs
    /\ \E name \in UploadNames :
          LET temp_dir == TempDir(uuids + 1)
              pdf_path == PathJoin(temp_dir, name)
          IN  /\ jobs' = Append(jobs, [kind |-> "full", temp_dir |-> temp_dir,
                                       pdf_path |-> pdf_path, pc |-> "cerfa"])
              /\ files' = files \cup { Wrote(Len(jobs) + 1, "pdf", pdf_path) }
    /\ uuids' = uuids + 1
    /\ UNCHANGED << mkstemps, otherJobs >>

\* POST /cua: the save raises, the request is answered 500 and no task is added
process_cua_fails ==
    /\ Len(jobs) < MaxJobs
    /\ uuids < MaxJobs
    /\ uuids' = uuids + 1
    /\ UNCHANGED << jobs, files, mkstemps, otherJobs >>

\* POST /cua/direct: the directory is named, the background task added
process_cua_direct ==
    /\ Len(jobs) < MaxJobs
    /\ jobs' = Append(jobs, [kind |-> "direct", temp_dir |-> TempDir(uuids + 1),
                             pdf_path |-> << >>, pc |-> "intersections"])
    /\ uuids' = uuids + 1
    /\ UNCHANGED << files, mkstemps, otherJobs >>

\* run_full_pipeline, step 1: the extraction gives commune, departement, parcels
ExtractionDone ==
    /\ \E j \in 1..Len(jobs) :
          /\ jobs[j].pc = "cerfa"
          /\ \E nv \in 1..(MaxJudgeRetries + 1) :
                files' = files \cup ExtractionFiles(j, nv)
          /\ jobs' = [jobs EXCEPT ![j].pc = "intersections"]
    /\ mkstemps' = mkstemps + 1
    /\ UNCHANGED << uuids, otherJobs >>

\* run_full_pipeline, step 1: the extraction lacks a field and ValueError ends the job
ExtractionInsufficient ==
    /\ \E j \in 1..Len(jobs) :
          /\ jobs[j].pc = "cerfa"
          /\ \E nv \in 0..(MaxJudgeRetries + 1) :
                files' = files \cup ExtractionFiles(j, nv)
          /\ jobs' = [jobs EXCEPT ![j].pc = "failed"]
    /\ mkstemps' = mkstemps + 1
    /\ UNCHANGED << uuids, otherJobs >>

\* run_intersections, and the pretty copy run_full_pipeline keeps
Intersected ==
    /\ \E j \in 1..Len(jobs) :
          LET dir == jobs[j].temp_dir IN
          /\ jobs[j].pc = "intersections"
          /\ files' = files
                \cup { Wrote(j, "inters_json", Append(dir, "intersections.json")) }
                \cup IF jobs[j].kind = "full"
                     THEN { Wrote(j, "inters_json",
                                  Append(dir, "intersections.pretty.json")) }
                     ELSE {}
          /\ jobs' = [jobs EXCEPT ![j].pc = "docx"]
    /\ UNCHANGED << uuids, mkstemps, otherJobs >>

\* build_cua_docx
DocxBuilt ==
    /\ \E j \in 1..Len(jobs) :
          /\ jobs[j].pc = "docx"
          /\ files' = files \cup
                { Wrote(j, "docx",
                        Append(jobs[j].temp_dir,
                               IF jobs[j].kind = "full" THEN "CUA_final.docx"
                               ELSE "CUA_final_direct.docx")) }
          /\ jobs' = [jobs EXCEPT ![j].pc = "map"]
    /\ UNCHANGED << uuids, mkstemps, otherJobs >>

\* build_map_html_bbox
MapWritten ==
    /\ \E j \in 1..Len(jobs) :
          /\ jobs[j].pc = "map"
          /\ files' = files \cup
                { Wrote(j, "map_html",
                        Append(jobs[j].temp_dir,
                               IF jobs[j].kind = "full" THEN "map.html"
                               ELSE "map_direct.html")) }
          /\ jobs' = [jobs EXCEPT ![j].pc = "done"]
    /\ UNCHANGED << uuids, mkstemps, otherJobs >>

\* no engine or no parcel reference: no map is written
MapNotWritten ==
    /\ \E j \in 1..Len(jobs) :
          /\ jobs[j].pc = "map"
          /\ jobs' = [jobs EXCEPT ![j].pc = "done"]
    /\ UNCHANGED << files, uuids, mkstemps, otherJobs >>

\* a step raises before it writes (what a step writes before it raises is among
\* the files of the actions above): the pipeline returns its failure
JobStepRaises ==
    /\ \E j \in 1..Len(jobs) :
          /\ jobs[j].pc \in {"cerfa", "intersections", "docx", "map"}
          /\ jobs' = [jobs EXCEPT ![j].pc = "failed"]
    /\ UNCHANGED << files, uuids, mkstemps, otherJobs >>

NextJobs ==
    \/ process_cua
    \/ process_cua_fails
    \/ process_cua_direct
    \/ ExtractionDone
    \/ ExtractionInsufficient
    \/ Intersected
    \/ DocxBuilt
    \/ MapWritten
    \/ MapNotWritten
    \/ JobStepRaises

SpecJobs == InitJobs /\ [][NextJobs]_vars

\* the files the working directory is said to hold
NamedFiles == {"pdf", "cerfa_json", "inters_json", "docx", "map_html"}

\* path lies below dir
Inside(dir, path) ==
    Len(path) > Len(dir) /\ SubSeq(path, 1, Len(dir)) = dir

\* C30: every request gets a working directory of its own, the uploaded PDF,
\* the extraction JSON, the intersections JSON, the DOCX and the map HTML of a
\* job are written inside it, and no file is written by two different jobs,
\* however the jobs interleave
C30_JobsWriteDisjointFiles ==
    /\ \A j1, j2 \in 1..Len(jobs) :
          j1 # j2 => jobs[j1].temp_dir # jobs[j2].temp_dir
    /\ \A f \in files :
          f.kind \in NamedFiles => Inside(jobs[f.job].temp_dir, f.path)
    /\ \A f, g \in files : f.path = g.path => f.job = g.job

=============================================================================
